---- MODULE Spec2Model ----
(***************************************************************************)
(* A model of the cached parallel fetch pipeline and the crawlers of the   *)
(* copernicus-marine-toolkit:                                              *)
(*   CacheManager, ParallelDownloader   (scrape_copernicus_enhanced.py)    *)
(*   MultiLevelCopernicusScraper        (multilevel_scraper.py)            *)
(*   DeepCopernicusScraper              (deep_scraper.py)                  *)
(* Time is counted in days.  A file is modelled by its name and its size.  *)
(***************************************************************************)
EXTENDS Integers, Sequences, FiniteSets, TLC

(***************************************************************************)
(* Bounds of the model.                                                    *)
(***************************************************************************)
\* the clock advances in steps of TickDays, up to MaxTime
TickDays == 15
MaxTime == 45

\* CacheManager.__init__(cache_dir, expire_days=30)
expire_days == 30

\* the locators of the model and the names their files are stored under
Urls == {"u1", "u2"}
Names == {"a.zip", "b.zip"}
\* a complete body has FullSize chunks, an interrupted one PartSize
FullSize == 2
PartSize == 1

(***************************************************************************)
(* Dictionaries (dict, the files of a directory) are functions on the set  *)
(* of their keys.                                                          *)
(***************************************************************************)
EmptyMap == [x \in {} |-> 0]
MapPut(m, k, v) == [x \in (DOMAIN m) \cup {k} |-> IF x = k THEN v ELSE m[x]]
MapDel(m, k) == [x \in (DOMAIN m) \ {k} |-> m[x]]

VARIABLES
    now,          \* datetime.now(), in days
    index,        \* CacheManager.index: cache key -> entry
    cache_files,  \* the files of cache_dir (but cache_index.json): name -> size
    index_file,   \* cache_index.json: whether it exists, and the document
    call,         \* the last CacheManager call: its arguments, its outcome
                  \* and the state it started from
    hist,         \* per locator: what the callers did with it so far
    cache_manager,\* ParallelDownloader.cache_manager is not None
    dest_dirs,    \* the directories that exist outside the cache
    dest_files,   \* the files outside the cache: path -> size
    batch,        \* the download_batch call in progress, or the last one
    audit,        \* per collected result: what its download_file call met
    site,         \* the pages crawled: the links of each, the pages that fail
    crawl,        \* the crawl session: scraper, visited set, call stack, result
    retry_loop,   \* a CopernicusScraper.download_file call: its retry
                  \* argument, its attempts so far, its sleeps, its return,
                  \* the size of the file at filepath
    naming,       \* a sanitize_filename call: its argument and its return
    threads,      \* per thread that calls the CacheManager: the call it is
                  \* in, the step it is at, its local variables
    index_text,   \* the text of cache_index.json, written through handles
    started,      \* the calls the threads have made
    analysis,     \* a detect_extremes or quality_check call: its arguments
                  \* and what it returns
    tutorial      \* a process_tutorial call: the anchors of the page, the
                  \* files of the tutorial directory, the tasks it built,
                  \* what the pool's workers are doing with each

cacheVars == <<now, index, cache_files, index_file, call, hist>>
dlVars == <<cache_manager, dest_dirs, dest_files, batch, audit>>
crawlVars == <<site, crawl>>
workerVars == <<threads, index_text, started>>
tutorialVars == <<tutorial>>
analysisVars == <<analysis>>
otherVars == <<retry_loop, naming, workerVars, tutorialVars, analysisVars>>

(***************************************************************************)
(* CacheManager                                                            *)
(***************************************************************************)
\* hashlib.md5(url.encode()).hexdigest(): a fixed-length digest, taken to be
\* free of collisions on the locators of the model
get_cache_key(url) == <<"md5", url>>

\* f"{cache_key}_{source_file.name}"
cache_filename(key, name) == <<key, name>>

\* the state the CacheManager works on
CacheState == [index |-> index, files |-> cache_files, disk |-> index_file]

\* datetime.now() - cached_date > timedelta(days=self.expire_days)
ExpiredAtOrAfter(info, t) == t - info.date >= expire_days
Expired(info, t) == t - info.date > expire_days

\* json.dump(self.index, f): the members of the object, a key and its entry
\* each; json.load: the dict of the members
json_dump(dict) == {<<k, dict[k]>> : k \in DOMAIN dict}
json_load(text) ==
    [k \in {m[1] : m \in text} |-> (CHOOSE m \in text : m[1] = k)[2]]

\* _load_index: the document of cache_index.json, or {} without the file
load_index(disk) == IF disk.exists THEN json_load(disk.doc) ELSE EmptyMap

\* _save_index: the whole index rewritten
SaveIndexSkipped(st) == st
save_index(st) ==
    [st EXCEPT !.disk = [exists |-> TRUE, doc |-> json_dump(st.index)]]

\* the outcome of a call: what it returns (None is the empty set), whether
\* it raised, and the state it leaves
Outcome(ret, raised, st) == [ret |-> ret, raised |-> raised, st |-> st]

\* remove_cache(url); Path.unlink raises on a missing file, del on a
\* missing key
RemoveAlwaysSaves(st, url) ==
    LET key == get_cache_key(url) IN
    IF key \in DOMAIN st.index
    THEN LET f == st.index[key].filename IN
         Outcome({}, FALSE,
             save_index([st EXCEPT !.files = MapDel(@, f),
                                   !.index = MapDel(@, key)]))
    ELSE Outcome({}, FALSE, save_index(st))
RemoveUnguarded(st, url) ==
    LET key == get_cache_key(url) IN
    IF key \notin DOMAIN st.index
    THEN Outcome({}, TRUE, st)
    ELSE LET f == st.index[key].filename IN
         IF f \notin DOMAIN st.files
         THEN Outcome({}, TRUE, st)
         ELSE Outcome({}, FALSE,
                  save_index([st EXCEPT !.files = MapDel(@, f),
                                        !.index = MapDel(@, key)]))
remove_cache(st, url) ==
    LET key == get_cache_key(url) IN
    IF key \in DOMAIN st.index
    THEN LET f == st.index[key].filename
             unlinked == IF f \in DOMAIN st.files
                         THEN [st EXCEPT !.files = MapDel(@, f)]
                         ELSE st
         IN  Outcome({}, FALSE,
                 save_index([unlinked EXCEPT !.index = MapDel(@, key)]))
    ELSE Outcome({}, FALSE, st)

\* is_cached(url) at time t
IsCachedNoEvict(st, url, t) ==
    LET key == get_cache_key(url) IN
    IF key \notin DOMAIN st.index
    THEN Outcome(FALSE, FALSE, st)
    ELSE IF Expired(st.index[key], t)
         THEN Outcome(FALSE, FALSE, st)
         ELSE Outcome(st.index[key].filename \in DOMAIN st.files, FALSE, st)
is_cached(st, url, t) ==
    LET key == get_cache_key(url) IN
    IF key \notin DOMAIN st.index
    THEN Outcome(FALSE, FALSE, st)
    ELSE LET cache_info == st.index[key] IN
         IF Expired(cache_info, t)
         THEN LET r == remove_cache(st, url) IN Outcome(FALSE, r.raised, r.st)
         ELSE Outcome(cache_info.filename \in DOMAIN st.files, FALSE, st)

\* get_cached_file(url) at time t: a set with the path, or the empty set
GetCachedFileUnchecked(st, url, t) ==
    LET key == get_cache_key(url) IN
    IF key \in DOMAIN st.index
    THEN Outcome({st.index[key].filename}, FALSE, st)
    ELSE Outcome({}, TRUE, st)
get_cached_file(st, url, t) ==
    LET c == is_cached(st, url, t) IN
    IF c.raised \/ ~c.ret
    THEN Outcome({}, c.raised, c.st)
    ELSE Outcome({c.st.index[get_cache_key(url)].filename}, FALSE, c.st)

\* add_to_cache(url, source_file) at time t, the source file having the
\* given name and size; fault is "none", "copy" (shutil.copy2 raises) or
\* "save" (_save_index raises before it wrote anything)
add_to_cache(st, url, name, size, t, fault) ==
    LET key == get_cache_key(url)
        f == cache_filename(key, name)
    IN  IF fault = "copy"
        THEN Outcome({}, TRUE, st)
        ELSE LET copied == [st EXCEPT !.files = MapPut(@, f, size)]
                 entered == [copied EXCEPT !.index = MapPut(@, key,
                                [url |-> url, filename |-> f,
                                 original_name |-> name, date |-> t,
                                 size |-> size])]
             IN  IF fault = "save"
                 THEN Outcome({}, TRUE, entered)
                 ELSE Outcome({f}, FALSE, save_index(entered))

\* clear_expired() at time t: remove_cache for every expired key, in the
\* order of expired_keys
RECURSIVE RemoveAll(_, _)
RemoveAll(st, keys) ==
    IF keys = {}
    THEN Outcome(0, FALSE, st)
    ELSE LET key == CHOOSE k \in keys : TRUE
             r == remove_cache(st, st.index[key].url)
         IN  IF r.raised
             THEN Outcome(0, TRUE, r.st)
             ELSE RemoveAll(r.st, keys \ {key})
ClearExpiredAtOrAfter(st, t) ==
    LET expired_keys ==
            {k \in DOMAIN st.index : ExpiredAtOrAfter(st.index[k], t)}
        r == RemoveAll(st, expired_keys)
    IN  Outcome(Cardinality(expired_keys), r.raised, r.st)
clear_expired(st, t) ==
    LET expired_keys == {k \in DOMAIN st.index : Expired(st.index[k], t)}
        r == RemoveAll(st, expired_keys)
    IN  Outcome(Cardinality(expired_keys), r.raised, r.st)

(***************************************************************************)
(* The calls of the CacheManager as actions.                               *)
(***************************************************************************)
NoCall == [op |-> "none", url |-> "", ret |-> {}, raised |-> FALSE,
           pre |-> [index |-> EmptyMap, files |-> EmptyMap,
                    disk |-> [exists |-> FALSE, doc |-> {}]],
           at |-> 0]

Apply(op, url, r) ==
    /\ index' = r.st.index
    /\ cache_files' = r.st.files
    /\ index_file' = r.st.disk
    /\ call' = [op |-> op, url |-> url, ret |-> r.ret, raised |-> r.raised,
                pre |-> CacheState, at |-> now]

CallIsCached(url) ==
    /\ Apply("is_cached", url, is_cached(CacheState, url, now))
    /\ UNCHANGED <<now, hist, dlVars, crawlVars, otherVars>>

CallGetCachedFile(url) ==
    /\ Apply("get_cached_file", url, get_cached_file(CacheState, url, now))
    /\ UNCHANGED <<now, hist, dlVars, crawlVars, otherVars>>

CallAddToCache(url, name, size) ==
    /\ Apply("add_to_cache", url,
             add_to_cache(CacheState, url, name, size, now, "none"))
    /\ hist' = [hist EXCEPT ![url] = [state |-> "added", at |-> now]]
    /\ UNCHANGED <<now, dlVars, crawlVars, otherVars>>

CallRemoveCache(url) ==
    /\ Apply("remove_cache", url, remove_cache(CacheState, url))
    /\ hist' = [hist EXCEPT ![url] =
                   IF @.state = "never" THEN @ ELSE [@ EXCEPT !.state = "removed"]]
    /\ UNCHANGED <<now, dlVars, crawlVars, otherVars>>

CallClearExpired ==
    /\ Apply("clear_expired", "", clear_expired(CacheState, now))
    /\ UNCHANGED <<now, hist, dlVars, crawlVars, otherVars>>

\* the clock
Tick ==
    /\ now + TickDays <= MaxTime
    /\ now' = now + TickDays
    /\ UNCHANGED <<index, cache_files, index_file, call, hist, dlVars, crawlVars, otherVars>>

\* a file of the cache directory deleted by something else than the
\* CacheManager
ExternalDelete(f) ==
    /\ f \in DOMAIN cache_files
    /\ cache_files' = MapDel(cache_files, f)
    /\ call' = [NoCall EXCEPT !.op = "external_delete"]
    /\ UNCHANGED <<now, index, index_file, hist, dlVars, crawlVars, otherVars>>

\* CacheManager.__init__ on a fresh cache directory
CacheInit ==
    /\ now = 0
    /\ index = EmptyMap
    /\ cache_files = EmptyMap
    /\ index_file = [exists |-> FALSE, doc |-> {}]
    /\ call = NoCall
    /\ hist = [u \in Urls |-> [state |-> "never", at |-> 0]]

CacheCalls ==
    \/ \E url \in Urls : CallIsCached(url)
    \/ \E url \in Urls : CallGetCachedFile(url)
    \/ \E url \in Urls, name \in Names :
           CallAddToCache(url, name, FullSize)
    \/ \E url \in Urls : CallRemoveCache(url)
    \/ CallClearExpired
    \/ Tick

NextCache == CacheCalls
NextCacheExt ==
    \/ CacheCalls
    \/ \E f \in DOMAIN cache_files : ExternalDelete(f)


(***************************************************************************)
(* ParallelDownloader                                                      *)
(***************************************************************************)
\* the tasks of a batch are at most MaxTasks, the batches at most MaxBatches
MaxTasks == 2
MaxBatches == 2

\* a destination path is its directory and its file name
Dirs == {"out", "new"}
Paths == {<<"out", "a.zip">>, <<"new", "a.zip">>}
parent(path) == path[1]
name_of(path) == path[2]

\* what a download_file call meets: a fetch that answers an error status
\* ("http"), finds the connection refused each time it connects ("connect"),
\* times out before the first byte ("timeout") or after the first chunk
\* was written ("timeout_mid"); a CacheManager
\* that cannot evict an expired entry ("evict"), copy into the cache
\* ("copy") or save its index ("save")
Faults == {"none", "http", "connect", "timeout", "timeout_mid", "evict",
           "copy", "save"}
FetchFaults == {"http", "connect", "timeout", "timeout_mid"}

\* HTTPAdapter(max_retries=3), mounted on the session for http and https
max_retries == 3
\* the connections one session.get opens: the adapter connects again after
\* a refused connection until its retries are used up
connection_attempts(fault) == IF fault = "connect" THEN 1 + max_retries ELSE 1

\* str(e) of the exception
NoError == "None"
ErrorText(fault) ==
    CASE fault = "http" -> "HTTPError"
      [] fault = "connect" -> "ConnectionError"
      [] fault \in {"timeout", "timeout_mid"} -> "Read timed out"
      [] fault = "evict" -> "PermissionError"
      [] fault = "copy" -> "OSError"
      [] fault = "save" -> "OSError"
      [] OTHER -> "FileNotFoundError"

\* the result dictionary download_file starts from
NewResult(url, path) ==
    [url |-> url, filepath |-> path, success |-> FALSE, cached |-> FALSE,
     size |-> 0, error |-> NoError]

\* what a download_file call leaves: its result, whether it raised, the
\* state of the cache, the files and directories outside it, and the
\* number of session.get calls it made
Done(result, raised, st, files, dirs, gets) ==
    [result |-> result, raised |-> raised, st |-> st, files |-> files,
     dirs |-> dirs, gets |-> gets]

\* is_cached as download_file meets it: eviction fails under fault "evict"
is_cached_in(st, url, t, fault) ==
    IF /\ fault = "evict"
       /\ get_cache_key(url) \in DOMAIN st.index
       /\ Expired(st.index[get_cache_key(url)], t)
    THEN Outcome(FALSE, TRUE, st)
    ELSE is_cached(st, url, t)

\* lines 205-223: the fetch, the write and the registration in the cache
FetchRollsBack(result, st, files, dirs, url, path, caching, t, fault) ==
    IF fault \in {"http", "connect", "timeout"}
    THEN Done([result EXCEPT !.error = ErrorText(fault)], FALSE,
              st, files, dirs, 1)
    ELSE LET dirs2 == dirs \cup {parent(path)} IN
         IF fault = "timeout_mid"
         THEN Done([result EXCEPT !.error = ErrorText(fault)], FALSE,
                   st, MapPut(files, path, PartSize), dirs2, 1)
         ELSE LET files2 == MapPut(files, path, FullSize)
                  ok == [result EXCEPT !.success = TRUE, !.size = FullSize]
              IN  IF caching
                  THEN LET a == add_to_cache(st, url, name_of(path), FullSize,
                                    t, IF fault \in {"copy", "save"}
                                       THEN fault ELSE "none")
                       IN  IF a.raised
                           THEN Done([result EXCEPT !.error = ErrorText(fault)],
                                    FALSE, a.st, MapDel(files2, path), dirs2, 1)
                           ELSE Done(ok, FALSE, a.st, files2, dirs2, 1)
                  ELSE Done(ok, FALSE, st, files2, dirs2, 1)
Fetch(result, st, files, dirs, url, path, caching, t, fault) ==
    IF fault \in {"http", "connect", "timeout"}
    THEN Done([result EXCEPT !.error = ErrorText(fault)], FALSE,
              st, files, dirs, 1)
    ELSE LET dirs2 == dirs \cup {parent(path)} IN
         IF fault = "timeout_mid"
         THEN Done([result EXCEPT !.error = ErrorText(fault)], FALSE,
                   st, MapPut(files, path, PartSize), dirs2, 1)
         ELSE LET files2 == MapPut(files, path, FullSize)
                  ok == [result EXCEPT !.success = TRUE, !.size = FullSize]
              IN  IF caching
                  THEN LET a == add_to_cache(st, url, name_of(path), FullSize,
                                    t, IF fault \in {"copy", "save"}
                                       THEN fault ELSE "none")
                       IN  IF a.raised
                           THEN Done([ok EXCEPT !.error = ErrorText(fault)],
                                    FALSE, a.st, files2, dirs2, 1)
                           ELSE Done(ok, FALSE, a.st, files2, dirs2, 1)
                  ELSE Done(ok, FALSE, st, files2, dirs2, 1)

\* download_file(url, filepath, use_cache) at time t
DownloadFileCacheOutsideTry(st, files, dirs, url, path, use_cache, cm, t, fault) ==
    LET result == NewResult(url, path)
        c == is_cached_in(st, url, t, fault)
    IN  IF use_cache /\ cm /\ c.raised
        THEN Done(result, TRUE, c.st, files, dirs, 0)
        ELSE Fetch(result, st, files, dirs, url, path, use_cache /\ cm, t, fault)
DownloadFileIgnoresFlag(st, files, dirs, url, path, use_cache, cm, t, fault) ==
    LET result == NewResult(url, path)
        caching == cm
        c == is_cached_in(st, url, t, fault)
    IN  IF ~caching
        THEN Fetch(result, st, files, dirs, url, path, caching, t, fault)
        ELSE IF c.raised
        THEN Done([result EXCEPT !.error = ErrorText(fault)], FALSE,
                  c.st, files, dirs, 0)
        ELSE IF ~c.ret
        THEN Fetch(result, c.st, files, dirs, url, path, caching, t, fault)
        ELSE LET g == get_cached_file(c.st, url, t) IN
             IF g.ret = {}
             THEN Fetch(result, g.st, files, dirs, url, path, caching, t, fault)
             ELSE LET cached_file == CHOOSE f \in g.ret : TRUE IN
                  IF parent(path) \notin dirs
                  THEN Done([result EXCEPT !.error = ErrorText("copy2")],
                           FALSE, g.st, files, dirs, 0)
                  ELSE Done([result EXCEPT !.success = TRUE, !.cached = TRUE,
                                           !.size = g.st.files[cached_file]],
                           FALSE, g.st,
                           MapPut(files, path, g.st.files[cached_file]),
                           dirs, 0)
download_file(st, files, dirs, url, path, use_cache, cm, t, fault) ==
    LET result == NewResult(url, path)
        caching == use_cache /\ cm
        c == is_cached_in(st, url, t, fault)
    IN  IF ~caching
        THEN Fetch(result, st, files, dirs, url, path, caching, t, fault)
        ELSE IF c.raised
        THEN Done([result EXCEPT !.error = ErrorText(fault)], FALSE,
                  c.st, files, dirs, 0)
        ELSE IF ~c.ret
        THEN Fetch(result, c.st, files, dirs, url, path, caching, t, fault)
        ELSE LET g == get_cached_file(c.st, url, t) IN
             IF g.ret = {}
             THEN Fetch(result, g.st, files, dirs, url, path, caching, t, fault)
             ELSE LET cached_file == CHOOSE f \in g.ret : TRUE IN
                  IF parent(path) \notin dirs
                  THEN Done([result EXCEPT !.error = ErrorText("copy2")],
                           FALSE, g.st, files, dirs, 0)
                  ELSE Done([result EXCEPT !.success = TRUE, !.cached = TRUE,
                                           !.size = g.st.files[cached_file]],
                           FALSE, g.st,
                           MapPut(files, path, g.st.files[cached_file]),
                           dirs, 0)

\* the task lists of the model
Task(url, path) == [url |-> url, path |-> path]
AllTasks == {Task(url, path) : url \in Urls, path \in Paths}
TaskLists == UNION {[1..n -> AllTasks] : n \in 0..MaxTasks}

NoBatch == [status |-> "idle", tasks |-> <<>>, use_cache |-> TRUE,
            pending |-> {}, results |-> <<>>, count |-> 0]

\* download_batch: the tasks submitted to the pool
SubmitBatch(tasks, use_cache) ==
    /\ batch.status \in {"idle", "returned", "raised"}
    /\ batch.pending = {}
    /\ batch.count < MaxBatches
    /\ batch' = [status |-> "running", tasks |-> tasks,
                 use_cache |-> use_cache, pending |-> DOMAIN tasks,
                 results |-> <<>>, count |-> batch.count + 1]
    /\ audit' = <<>>
    /\ UNCHANGED <<cacheVars, cache_manager, dest_dirs, dest_files, crawlVars, otherVars>>

\* lines 253-255: future.result() of a task that completed, appended
CollectSuccessful(results, d) ==
    IF d.result.success THEN Append(results, d.result) ELSE results
Collect(results, d) == Append(results, d.result)

\* a worker runs download_file for task i and the batch collects its result
RunTask(i, fault) ==
    /\ i \in batch.pending
    /\ LET task == batch.tasks[i]
           st == CacheState
           d == download_file(st, dest_files, dest_dirs, task.url, task.path,
                              batch.use_cache, cache_manager, now, fault)
           key == get_cache_key(task.url)
       IN  /\ index' = d.st.index
           /\ cache_files' = d.st.files
           /\ index_file' = d.st.disk
           /\ dest_files' = d.files
           /\ dest_dirs' = d.dirs
           /\ batch' = [batch EXCEPT
                  !.pending = @ \ {i},
                  !.status = IF d.raised THEN "raised" ELSE @,
                  !.results = IF d.raised \/ batch.status = "raised"
                              THEN @ ELSE Collect(@, d)]
           /\ audit' = IF d.raised \/ batch.status = "raised"
                       THEN audit
                       ELSE Append(audit,
                              [task |-> i, gets |-> d.gets,
                               attempts |->
                                   d.gets * connection_attempts(fault),
                               timed_out |-> /\ d.gets > 0
                                             /\ fault \in {"timeout",
                                                           "timeout_mid"},
                               valid |-> /\ key \in DOMAIN index
                                         /\ ~Expired(index[key], now)
                                         /\ index[key].filename
                                                \in DOMAIN cache_files,
                               existed |-> task.path \in DOMAIN dest_files,
                               add_failed |-> /\ d.gets > 0
                                              /\ batch.use_cache
                                              /\ cache_manager
                                              /\ fault \in {"copy", "save"}])
    /\ UNCHANGED <<now, call, hist, cache_manager, crawlVars, otherVars>>

\* line 270: every future collected, download_batch returns the results
ReturnBatch ==
    /\ batch.status = "running"
    /\ batch.pending = {}
    /\ batch' = [batch EXCEPT !.status = "returned"]
    /\ UNCHANGED <<cacheVars, cache_manager, dest_dirs, dest_files, audit,
                   crawlVars, otherVars>>

\* ParallelDownloader.__init__, in an output directory without downloads
DownloaderInit ==
    /\ cache_manager = TRUE
    /\ dest_dirs = {"out"}
    /\ dest_files = EmptyMap
    /\ batch = NoBatch
    /\ audit = <<>>

\* ParallelDownloader(max_workers, cache_manager), with a CacheManager or
\* with None (use_cache=False of EnhancedCopernicusScraper.__init__)
DownloaderAnyInit ==
    /\ cache_manager \in BOOLEAN
    /\ dest_dirs = {"out"}
    /\ dest_files = EmptyMap
    /\ batch = NoBatch
    /\ audit = <<>>

\* between two batches the clock advances
NextBatch ==
    \/ \E tasks \in TaskLists, use_cache \in BOOLEAN :
           SubmitBatch(tasks, use_cache)
    \/ \E i \in 1..MaxTasks, fault \in Faults : RunTask(i, fault)
    \/ ReturnBatch
    \/ batch.status = "returned" /\ batch.count < MaxBatches /\ Tick


(***************************************************************************)
(* The crawlers: DeepCopernicusScraper.deep_crawl and                      *)
(* MultiLevelCopernicusScraper._crawl_level.  The recursion is a stack of  *)
(* frames; a frame is a call with its url, its depth, the place it is at,  *)
(* the links it still has to go through and its found_resources.           *)
(***************************************************************************)
\* a page has at most MaxLinks links; max_depth is at most MaxDepth
MaxLinks == 2
MaxDepth == 2
\* all_links[:20] in deep_crawl, sub_pages[:5] in _crawl_level
LinkCap == 20
SubpageCap == 5

\* the pages of the crawled site, and a page of another domain
OnSite == {"A", "B", "C"}
\* a further page of the site, for the sites on which only deep_crawl runs
Further == {"P"}
AllPages == OnSite \cup Further \cup {"X"}
\* urlparse(url).netloc
netloc(url) == IF url \in OnSite \cup Further THEN "site" ELSE "other"
\* the anchors in the order of the document
DocumentOrder == <<"A", "B", "C", "P", "X">>
\* links to A, B and P carry a tutorial keyword in their href; links to C and
\* X are download buttons (text "Download"), and X is on a hosting platform
KeywordInHref == {"A", "B", "P"}
DownloadText == {"C", "X"}
Platforms == {"X"}

Min(a, b) == IF a < b THEN a ELSE b
Head_(s, n) == SubSeq(s, 1, Min(Len(s), n))
\* the orders a set can be listed in
Perms(S) ==
    {s \in [1..Cardinality(S) -> S] : \A i, j \in DOMAIN s : s[i] = s[j] => i = j}
\* the elements of S in the order of the document
InOrder(S) == SelectSeq(DocumentOrder, LAMBDA u : u \in S)

\* the resources a page itself shows (direct file links, script and data
\* attribute links), in the order the scraper finds them
Resource(page) == [url |-> <<"file", page>>, source_page |-> page]
page_resources(page) == <<Resource(page)>>

\* soup.find_all('a', href=True) of deep_crawl
all_links(page) == InOrder(site.links[page])
\* any(keyword in link_text or keyword in href.lower() ...): 'tutorial'
\* and 'download' both are relevant keywords
relevant(url) == url \in KeywordInHref \cup DownloadText

\* _find_download_buttons: the links not yet visited, list(set(...))
find_download_buttons(page, visited) ==
    Perms({u \in site.links[page] : u \in DownloadText /\ u \notin visited})
\* _find_tutorial_subpages: the links of the page's domain, list(set(...))
find_tutorial_subpages(page) ==
    Perms({u \in site.links[page] :
              u \in KeywordInHref /\ netloc(u) = netloc(page)})
\* _find_external_platforms, list(set(...)), and the resources made of them
find_external_platforms(page) ==
    Perms({u \in site.links[page] : u \in Platforms})
ExternalResource(ext, page) ==
    [url |-> <<"download", ext>>, source_page |-> page]

Frame(url, depth) ==
    [url |-> url, depth |-> depth, pc |-> "enter", todo |-> <<>>,
     found |-> <<>>]
Top == crawl.stack[Len(crawl.stack)]
Running == crawl.status = "running" /\ crawl.stack # <<>>

\* the stack with its top frame replaced
SetTop(f) == [crawl.stack EXCEPT ![Len(crawl.stack)] = f]
\* a call made from the top frame, which moves on to the rest of its links
Call(rest, url) ==
    Append(SetTop([Top EXCEPT !.todo = rest]), Frame(url, Top.depth + 1))

\* the top call returns `res`: the caller extends its found_resources, and
\* the crawl session ends with the return of the first call
Returned_(c, res) ==
    IF Len(c.stack) = 1
    THEN [c EXCEPT !.stack = <<>>, !.status = "done", !.result = res]
    ELSE LET below == SubSeq(c.stack, 1, Len(c.stack) - 1)
             caller == below[Len(below)]
         IN  [c EXCEPT !.stack =
                 [below EXCEPT ![Len(below)] =
                     [caller EXCEPT !.found = @ \o res]]]
Return(res) == crawl' = Returned_(crawl, res)
\* `return []` of the guard, met with a url that is in the visited set
Skip(url) ==
    IF url \in crawl.visited
    THEN [crawl EXCEPT !.skipped = @ \cup {url}]
    ELSE crawl

\* visited_urls.add(url) / visited.add(url), and the request of the page
VisitUnmarked(url) ==
    [crawl EXCEPT !.fetched = Append(@, url),
                  !.depths = Append(@, Top.depth)]
Visit(url) ==
    [crawl EXCEPT !.visited = @ \cup {url}, !.fetched = Append(@, url),
                  !.depths = Append(@, Top.depth)]

\* `depth > self.max_depth` of the guard (lines 208 and 39)
BeyondByOne(depth) == depth > site.max_depth + 1
Beyond(depth) == depth > site.max_depth

\* deep_crawl, lines 208-277 and 303-304: the guard, the fetch, the page's
\* resources, the exception caught
DeepEnter ==
    /\ Running /\ crawl.scraper = "deep" /\ Top.pc = "enter"
    /\ IF Beyond(Top.depth) \/ Top.url \in crawl.visited
       THEN crawl' = Returned_(Skip(Top.url), <<>>)
       ELSE IF Top.url \in site.broken
       THEN crawl' = [Visit(Top.url) EXCEPT
                !.stack = SetTop([Top EXCEPT !.pc = "return"])]
       ELSE IF Top.url \in site.torn
       THEN crawl' = [Visit(Top.url) EXCEPT
                !.stack = SetTop([Top EXCEPT
                    !.found = page_resources(Top.url), !.pc = "return"])]
       ELSE crawl' = [Visit(Top.url) EXCEPT
                !.stack = SetTop([Top EXCEPT
                    !.found = page_resources(Top.url),
                    !.pc = IF Top.depth < site.max_depth
                           THEN "links" ELSE "return",
                    !.todo = Head_(all_links(Top.url), LinkCap)])]
    /\ UNCHANGED <<cacheVars, dlVars, site, otherVars>>

\* deep_crawl, lines 285-301: one turn of the loop over the links
DeepLink ==
    /\ Running /\ crawl.scraper = "deep" /\ Top.pc = "links"
    /\ IF Top.todo = <<>>
       THEN crawl' = [crawl EXCEPT !.stack = SetTop([Top EXCEPT !.pc = "return"])]
       ELSE LET url == Head(Top.todo)
                rest == Tail(Top.todo)
            IN  IF /\ relevant(url)
                   /\ netloc(url) = netloc(Top.url)
                   /\ url \notin crawl.visited
                THEN crawl' = [crawl EXCEPT !.stack = Call(rest, url)]
                ELSE crawl' = [crawl EXCEPT
                         !.stack = SetTop([Top EXCEPT !.todo = rest])]
    /\ UNCHANGED <<cacheVars, dlVars, site, otherVars>>

\* _crawl_level, lines 39-61 and 101-102: the guard, the fetch, the direct
\* downloads, the list of download buttons, the exception caught
MultiEnter ==
    /\ Running /\ crawl.scraper = "multi" /\ Top.pc = "enter"
    /\ IF Beyond(Top.depth) \/ Top.url \in crawl.visited
       THEN crawl' = Returned_(Skip(Top.url), <<>>)
       ELSE IF Top.url \in site.broken
       THEN crawl' = [Visit(Top.url) EXCEPT
                !.stack = SetTop([Top EXCEPT !.pc = "return"])]
       ELSE IF Top.url \in site.torn
       THEN crawl' = [Visit(Top.url) EXCEPT
                !.stack = SetTop([Top EXCEPT
                    !.found = page_resources(Top.url), !.pc = "return"])]
       ELSE \E buttons \in
                find_download_buttons(Top.url, crawl.visited \cup {Top.url}) :
              crawl' = [Visit(Top.url) EXCEPT
                  !.stack = SetTop([Top EXCEPT
                      !.found = page_resources(Top.url),
                      !.pc = "buttons",
                      !.todo = buttons])]
    /\ UNCHANGED <<cacheVars, dlVars, site, otherVars>>

\* _crawl_level, lines 62-69: one turn of the loop over the buttons, and
\* after the last the list of sub-pages
MultiButton ==
    /\ Running /\ crawl.scraper = "multi" /\ Top.pc = "buttons"
    /\ IF Top.todo # <<>>
       THEN crawl' = [crawl EXCEPT !.stack = Call(Tail(Top.todo), Head(Top.todo))]
       ELSE IF Top.depth < site.max_depth
       THEN \E sub_pages \in find_tutorial_subpages(Top.url) :
              crawl' = [crawl EXCEPT !.stack = SetTop([Top EXCEPT
                  !.pc = "subpages",
                  !.todo = Head_(sub_pages, SubpageCap)])]
       ELSE crawl' = [crawl EXCEPT !.stack = SetTop([Top EXCEPT !.pc = "external"])]
    /\ UNCHANGED <<cacheVars, dlVars, site, otherVars>>

\* _crawl_level, lines 70-74: one turn of the loop over the sub-pages
MultiSubpage ==
    /\ Running /\ crawl.scraper = "multi" /\ Top.pc = "subpages"
    /\ IF Top.todo = <<>>
       THEN crawl' = [crawl EXCEPT !.stack = SetTop([Top EXCEPT !.pc = "external"])]
       ELSE LET sub_url == Head(Top.todo)
                rest == Tail(Top.todo)
            IN  IF sub_url \notin crawl.visited
                THEN crawl' = [crawl EXCEPT !.stack = Call(rest, sub_url)]
                ELSE crawl' = [crawl EXCEPT
                         !.stack = SetTop([Top EXCEPT !.todo = rest])]
    /\ UNCHANGED <<cacheVars, dlVars, site, otherVars>>

\* _crawl_level, lines 77-99: the links to external platforms
MultiExternal ==
    /\ Running /\ crawl.scraper = "multi" /\ Top.pc = "external"
    /\ \E external_links \in find_external_platforms(Top.url) :
         crawl' = [crawl EXCEPT !.stack = SetTop([Top EXCEPT
             !.pc = "return",
             !.found = @ \o [i \in DOMAIN external_links |->
                                ExternalResource(external_links[i], Top.url)]])]
    /\ UNCHANGED <<cacheVars, dlVars, site, otherVars>>

\* return found_resources (lines 306 and 104)
CrawlReturn ==
    /\ Running /\ Top.pc = "return"
    /\ Return(Top.found)
    /\ UNCHANGED <<cacheVars, dlVars, site, otherVars>>

\* a new scraper of the same class crawls the same site once more
SecondRun ==
    /\ crawl.status = "done" /\ crawl.run = 1
    /\ crawl' = [crawl EXCEPT !.run = 2, !.status = "running",
                              !.visited = {}, !.fetched = <<>>,
                              !.depths = <<>>,
                              !.skipped = {},
                              !.stack = <<Frame(site.root, 0)>>,
                              !.first = crawl.result, !.result = <<>>]
    /\ UNCHANGED <<cacheVars, dlVars, site, otherVars>>

\* the same scraper object crawls the root once more (the loop over
\* start_urls of scrape_copernicus_resources, a second follow_tutorial_path
\* call): visited_urls / visited is set in __init__ only
SameObjectRun ==
    /\ crawl.status = "done" /\ crawl.run = 2
    /\ crawl' = [crawl EXCEPT !.run = 3, !.status = "running",
                              !.stack = <<Frame(site.root, 0)>>,
                              !.result = <<>>]
    /\ UNCHANGED <<cacheVars, dlVars, site, otherVars>>

\* the sites of the model: the links of each page; at most one page that
\* fails, either when it is requested (broken) or on an anchor that urljoin
\* rejects, met after the page's own resources were found (torn)
Sites ==
    {w \in [links : {[p \in AllPages |-> IF p \in OnSite THEN l[p] ELSE {}] :
                         l \in {k \in [OnSite -> SUBSET (OnSite \cup {"X"})] :
                                   \A p \in OnSite :
                                       /\ p \notin k[p]
                                       /\ Cardinality(k[p]) <= MaxLinks}},
             broken : {{}, {"B"}},
             torn : {{}, {"B"}},
             max_depth : 1..MaxDepth,
             root : {"A"}] :
        w.broken \cap w.torn = {}}

NoCrawl == [scraper |-> "none", status |-> "idle", run |-> 0, visited |-> {},
            fetched |-> <<>>, skipped |-> {}, stack |-> <<>>, result |-> <<>>,
            first |-> <<>>, depths |-> <<>>]

\* no scraper
CrawlIdle ==
    /\ site = [links |-> [p \in AllPages |-> {}], broken |-> {},
               torn |-> {}, max_depth |-> 0, root |-> "A"]
    /\ crawl = NoCrawl

\* DeepCopernicusScraper(max_depth) before deep_crawl(root, 0), or
\* MultiLevelCopernicusScraper() before follow_tutorial_path(root, max_depth)
CrawlInit ==
    /\ site \in Sites
    /\ \E scraper \in {"deep", "multi"} :
         crawl = [NoCrawl EXCEPT !.scraper = scraper, !.status = "running",
                                 !.run = 1,
                                 !.stack = <<Frame(site.root, 0)>>]

\* the sites of four pages of one domain, none of which fails
DeepSites ==
    [links : {[p \in AllPages |-> IF p \in DOMAIN l THEN l[p] ELSE {}] :
                 l \in {k \in [OnSite \cup Further ->
                                  SUBSET (OnSite \cup Further)] :
                           \A p \in DOMAIN k :
                               /\ p \notin k[p]
                               /\ Cardinality(k[p]) <= MaxLinks}},
     broken : {{}},
     torn : {{}},
     max_depth : 1..MaxDepth,
     root : {"A"}]

\* DeepCopernicusScraper(max_depth) before deep_crawl(root, 0)
DeepInit ==
    /\ site \in DeepSites
    /\ crawl = [NoCrawl EXCEPT !.scraper = "deep", !.status = "running",
                               !.run = 1,
                               !.stack = <<Frame(site.root, 0)>>]

NextDeep ==
    \/ DeepEnter
    \/ DeepLink
    \/ CrawlReturn

NextCrawl ==
    \/ DeepEnter
    \/ DeepLink
    \/ MultiEnter
    \/ MultiButton
    \/ MultiSubpage
    \/ MultiExternal
    \/ CrawlReturn
    \/ SecondRun
    \/ SameObjectRun

(***************************************************************************)
(* CopernicusScraper.download_file(url, filepath, retry=3)                 *)
(* (scrape_copernicus.py): the loop over the attempts.                     *)
(***************************************************************************)
\* the retry argument is at most MaxRetry
MaxRetry == 3
\* retry: int = 3
retry_default == 3
\* what an attempt meets: a complete download, an exception of session.get
\* or raise_for_status, or one of the transfer after the file was opened
Attempts == {"ok", "HTTPError", "ConnectionError", "Timeout",
             "ChunkedEncodingError"}
\* open(filepath, 'wb') and the chunks written before the attempt ended
written(met, file) ==
    CASE met = "ok" -> FullSize
      [] met = "ChunkedEncodingError" -> PartSize
      [] OTHER -> file

\* time.sleep(2 ** attempt)
BackoffLinear(attempt) == 2 * attempt
backoff(attempt) == 2 ^ attempt

NoRetryLoop == [status |-> "idle", retry |-> 0, attempt |-> 0, log |-> <<>>,
                sleeps |-> <<>>, ret |-> FALSE, file |-> 0]

\* lines 236-260: one turn of the loop, with outcome `met`
RetryAttempt(met) ==
    /\ retry_loop.status = "running"
    /\ retry_loop.attempt < retry_loop.retry
    /\ LET attempt == retry_loop.attempt
           logged == [retry_loop EXCEPT !.log = Append(@, met),
                                        !.file = written(met, @)]
       IN  retry_loop' =
               IF met = "ok"
               THEN [logged EXCEPT !.status = "returned", !.ret = TRUE]
               ELSE IF attempt = retry_loop.retry - 1
               THEN [logged EXCEPT !.status = "returned", !.ret = FALSE]
               ELSE [logged EXCEPT !.attempt = attempt + 1,
                                   !.sleeps = Append(@, backoff(attempt))]
    /\ UNCHANGED <<cacheVars, dlVars, crawlVars, naming, workerVars,
                   tutorialVars, analysisVars>>

\* line 262: range(retry) is over without a return
RetryLoopOver ==
    /\ retry_loop.status = "running"
    /\ retry_loop.attempt >= retry_loop.retry
    /\ retry_loop' = [retry_loop EXCEPT !.status = "returned", !.ret = FALSE]
    /\ UNCHANGED <<cacheVars, dlVars, crawlVars, naming, workerVars,
                   tutorialVars, analysisVars>>

\* no download_file call
RetryIdle == retry_loop = NoRetryLoop
\* download_file(url, filepath) or download_file(url, filepath, retry)
RetryInit ==
    \E retry \in (0..MaxRetry) \cup {retry_default} :
        retry_loop = [NoRetryLoop EXCEPT !.status = "running", !.retry = retry]

NextRetry ==
    \/ \E met \in Attempts : RetryAttempt(met)
    \/ RetryLoopOver

(***************************************************************************)
(* sanitize_filename(filename) of CopernicusScraper and of                 *)
(* EnhancedCopernicusScraper (the same code).  A string is the sequence of *)
(* its characters.                                                         *)
(***************************************************************************)
\* the titles of the model: every string of at most MaxLen characters of
\* Alphabet, the same after a long run of letters, and the title of
\* test_sanitize_filename
MaxLen == 3
Alphabet == {"a", "1", " ", "_", ":", "(", "."}
ExampleTitle ==
    <<"T", "u", "t", "o", "r", "i", "a", "l", ":", " ", "S", "S", "T", " ",
      "A", "n", "a", "l", "y", "s", "i", "s", " ", "(", "v", "1", ".", "0",
      ")">>
ExampleName ==
    <<"T", "u", "t", "o", "r", "i", "a", "l", "_", "S", "S", "T", "_",
      "A", "n", "a", "l", "y", "s", "i", "s", "_", "v", "1", "_", "0">>

\* filename[:50] if len(filename) > 50
max_name_length == 50
\* the characters of r'[<>:"/\\|?*]'
Disallowed == {"<", ">", ":", "\"", "/", "\\", "|", "?", "*"}

\* re.sub(r'_+', '_', filename)
RECURSIVE collapse(_)
collapse(s) ==
    IF Len(s) < 2
    THEN s
    ELSE IF s[1] = "_" /\ s[2] = "_"
         THEN collapse(Tail(s))
         ELSE <<s[1]>> \o collapse(Tail(s))
\* filename.strip('_')
RECURSIVE lstrip(_)
lstrip(s) == IF s # <<>> /\ s[1] = "_" THEN lstrip(Tail(s)) ELSE s
RECURSIVE rstrip(_)
rstrip(s) ==
    IF s # <<>> /\ s[Len(s)] = "_"
    THEN rstrip(SubSeq(s, 1, Len(s) - 1))
    ELSE s
strip(s) == rstrip(lstrip(s))

sanitize_filename(filename) ==
    LET removed == SelectSeq(filename, LAMBDA c : c \notin Disallowed)
        replaced == [i \in DOMAIN removed |->
                        IF removed[i] = " " THEN "_" ELSE removed[i]]
        collapsed == collapse(replaced)
        stripped == strip(collapsed)
    IN  IF Len(stripped) > max_name_length
        THEN SubSeq(stripped, 1, max_name_length)
        ELSE stripped

\* the strings of at most n characters of Alphabet
Strings(n) == UNION {[1..k -> Alphabet] : k \in 0..n}
\* a run of letters that ends at the cap or just before it
LongRuns == {[i \in 1..k |-> "a"] :
                k \in (max_name_length - MaxLen)..max_name_length}
Titles ==
    Strings(MaxLen)
        \cup {run \o t : run \in LongRuns, t \in Strings(MaxLen)}
        \cup {ExampleTitle}

NoNaming == [status |-> "idle", filename |-> <<>>, ret |-> <<>>]

\* the call returns
Sanitize ==
    /\ naming.status = "called"
    /\ naming' = [naming EXCEPT !.status = "returned",
                                !.ret = sanitize_filename(naming.filename)]
    /\ UNCHANGED <<cacheVars, dlVars, crawlVars, retry_loop, workerVars,
                   tutorialVars, analysisVars>>

\* no sanitize_filename call
NamingIdle == naming = NoNaming
\* sanitize_filename(title)
NamingInit ==
    \E title \in Titles :
        naming = [NoNaming EXCEPT !.status = "called", !.filename = title]

NextNaming == Sanitize

(***************************************************************************)
(* The CacheManager called by several threads (the workers of a            *)
(* download_batch pool share one CacheManager, which has no lock).  A call *)
(* goes step by step, and the steps of the threads interleave.             *)
(* cache_index.json is followed as a text: each _save_index opens it for   *)
(* writing, which empties it, fills the buffer of its own handle, and      *)
(* writes the buffer from the start of the file when it closes.            *)
(***************************************************************************)
Threads == {"t1", "t2"}
\* each thread makes at most MaxCalls calls
MaxCalls == 1

NoThread == [pc |-> "idle", op |-> "none", url |-> "", name |-> "",
             cache_file |-> <<>>, keys |-> {}, size |-> 0, buf |-> EmptyMap,
             raised |-> "None", ret |-> FALSE, calls |-> 0]

\* the text of cache_index.json: absent, empty, the document of an index
\* (entries is the number of its entries), or torn (no json document)
Text(kind, doc, entries) == [kind |-> kind, doc |-> doc, entries |-> entries]
TextOf(doc) == Text("doc", doc, Cardinality(DOMAIN doc))
\* a handle closed on a text: the buffer replaces the start of the text,
\* and what a longer text had after it stays (the length of a document is
\* counted in entries)
Overlay(text, buf) ==
    IF text.entries <= Cardinality(DOMAIN buf)
    THEN TextOf(buf)
    ELSE Text("torn", EmptyMap, text.entries)

\* the step of thread t: its record replaced
Step(t, rec) == threads' = [threads EXCEPT ![t] = rec]
\* the call of thread t returns, or raises
Finish(t, ret) ==
    [threads[t] EXCEPT !.pc = "idle", !.ret = ret, !.raised = "None"]
Raise(t, exception) ==
    [threads[t] EXCEPT !.pc = "idle", !.ret = FALSE, !.raised = exception]
\* what the steps of the threads leave alone
WorkerFrame == UNCHANGED <<now, call, hist, index_file, dlVars, crawlVars,
                           retry_loop, naming, tutorialVars, analysisVars>>

\* a thread calls add_to_cache(url, source_file)
StartAdd(t, url, name) ==
    /\ threads[t].pc = "idle" /\ threads[t].calls < MaxCalls
    /\ Step(t, [NoThread EXCEPT !.pc = "add_copy", !.op = "add_to_cache",
                                !.url = url, !.name = name,
                                !.calls = threads[t].calls + 1])
    /\ started' = started \cup {[thread |-> t, op |-> "add_to_cache",
                                 url |-> url]}
    /\ UNCHANGED <<index, cache_files, index_text>>
    /\ WorkerFrame

\* line 97: shutil.copy2(source_file, cache_file)
AddCopy(t) ==
    /\ threads[t].pc = "add_copy"
    /\ LET f == cache_filename(get_cache_key(threads[t].url), threads[t].name)
       IN  /\ cache_files' = MapPut(cache_files, f, FullSize)
           /\ Step(t, [threads[t] EXCEPT !.pc = "add_set", !.cache_file = f])
    /\ UNCHANGED <<index, index_text, started>>
    /\ WorkerFrame

\* lines 101-106: the entry is built; cache_file.stat() raises when the
\* file is gone
AddBuildEntry(t) ==
    /\ threads[t].pc = "add_set"
    /\ LET f == threads[t].cache_file IN
       Step(t, IF f \notin DOMAIN cache_files
               THEN Raise(t, "FileNotFoundError")
               ELSE [threads[t] EXCEPT !.pc = "add_store",
                                       !.size = cache_files[f]])
    /\ UNCHANGED <<index, cache_files, index_text, started>>
    /\ WorkerFrame

\* line 100: self.index[cache_key] = the entry
AddSetEntry(t) ==
    /\ threads[t].pc = "add_store"
    /\ index' = MapPut(index, get_cache_key(threads[t].url),
                    [url |-> threads[t].url,
                     filename |-> threads[t].cache_file,
                     original_name |-> threads[t].name, date |-> now,
                     size |-> threads[t].size])
    /\ Step(t, [threads[t] EXCEPT !.pc = "save_open"])
    /\ UNCHANGED <<cache_files, index_text, started>>
    /\ WorkerFrame

\* line 55: open(self.index_file, 'w')
SaveOpen(t) ==
    /\ threads[t].pc = "save_open"
    /\ index_text' = Text("empty", EmptyMap, 0)
    /\ Step(t, [threads[t] EXCEPT !.pc = "save_dump", !.buf = EmptyMap])
    /\ UNCHANGED <<index, cache_files, started>>
    /\ WorkerFrame

\* line 56: json.dump starts to go through self.index (an empty index is
\* written at once)
SaveDumpBegin(t) ==
    /\ threads[t].pc = "save_dump"
    /\ Step(t, [threads[t] EXCEPT
                   !.pc = IF index = EmptyMap THEN "save_close" ELSE "save_items",
                   !.size = Cardinality(DOMAIN index),
                   !.buf = EmptyMap])
    /\ UNCHANGED <<index, cache_files, index_text, started>>
    /\ WorkerFrame

\* line 56: json.dump has gone through self.index, or the dictionary
\* changed size under it: RuntimeError, and the file is closed on the part
\* of the document that was written
SaveDumpEnd(t) ==
    /\ threads[t].pc = "save_items"
    /\ IF Cardinality(DOMAIN index) # threads[t].size
       THEN /\ index_text' = Text("torn", EmptyMap, index_text.entries)
            /\ Step(t, Raise(t, "RuntimeError"))
       ELSE /\ Step(t, [threads[t] EXCEPT !.pc = "save_close", !.buf = index])
            /\ UNCHANGED index_text
    /\ UNCHANGED <<index, cache_files, started>>
    /\ WorkerFrame

\* the end of the with block of _save_index: the handle is closed, and
\* the call that saved goes on
SaveClose(t) ==
    /\ threads[t].pc = "save_close"
    /\ index_text' = Overlay(index_text, threads[t].buf)
    /\ Step(t, IF threads[t].op = "clear_expired"
               THEN [threads[t] EXCEPT !.pc = "clear_next"]
               ELSE Finish(t, threads[t].op = "add_to_cache"))
    /\ UNCHANGED <<index, cache_files, started>>
    /\ WorkerFrame

\* remove_cache is over: clear_expired goes on, any other call returns
AfterRemove(t) ==
    IF threads[t].op = "clear_expired"
    THEN [threads[t] EXCEPT !.pc = "clear_next"]
    ELSE Finish(t, FALSE)

\* a thread calls remove_cache(url)
StartRemove(t, url) ==
    /\ threads[t].pc = "idle" /\ threads[t].calls < MaxCalls
    /\ Step(t, [NoThread EXCEPT !.pc = "rm_check", !.op = "remove_cache",
                                !.url = url,
                                !.calls = threads[t].calls + 1])
    /\ started' = started \cup {[thread |-> t, op |-> "remove_cache",
                                 url |-> url]}
    /\ UNCHANGED <<index, cache_files, index_text>>
    /\ WorkerFrame

\* line 116: if cache_key in self.index
RemoveCheck(t) ==
    /\ threads[t].pc = "rm_check"
    /\ Step(t, IF get_cache_key(threads[t].url) \in DOMAIN index
               THEN [threads[t] EXCEPT !.pc = "rm_read"]
               ELSE AfterRemove(t))
    /\ UNCHANGED <<index, cache_files, index_text, started>>
    /\ WorkerFrame

\* lines 117-118: cache_info = self.index[cache_key], cache_file
RemoveRead(t) ==
    /\ threads[t].pc = "rm_read"
    /\ LET key == get_cache_key(threads[t].url) IN
       Step(t, IF key \notin DOMAIN index
               THEN Raise(t, "KeyError")
               ELSE [threads[t] EXCEPT !.pc = "rm_exists",
                                       !.cache_file = index[key].filename])
    /\ UNCHANGED <<index, cache_files, index_text, started>>
    /\ WorkerFrame

\* line 120: if cache_file.exists()
RemoveExists(t) ==
    /\ threads[t].pc = "rm_exists"
    /\ Step(t, [threads[t] EXCEPT !.pc =
                   IF threads[t].cache_file \in DOMAIN cache_files
                   THEN "rm_unlink" ELSE "rm_del"])
    /\ UNCHANGED <<index, cache_files, index_text, started>>
    /\ WorkerFrame

\* line 121: cache_file.unlink()
RemoveUnlink(t) ==
    /\ threads[t].pc = "rm_unlink"
    /\ IF threads[t].cache_file \notin DOMAIN cache_files
       THEN /\ Step(t, Raise(t, "FileNotFoundError"))
            /\ UNCHANGED cache_files
       ELSE /\ cache_files' = MapDel(cache_files, threads[t].cache_file)
            /\ Step(t, [threads[t] EXCEPT !.pc = "rm_del"])
    /\ UNCHANGED <<index, index_text, started>>
    /\ WorkerFrame

\* line 123: del self.index[cache_key]
RemoveDel(t) ==
    /\ threads[t].pc = "rm_del"
    /\ LET key == get_cache_key(threads[t].url) IN
       IF key \notin DOMAIN index
       THEN /\ Step(t, Raise(t, "KeyError"))
            /\ UNCHANGED index
       ELSE /\ index' = MapDel(index, key)
            /\ Step(t, [threads[t] EXCEPT !.pc = "save_open"])
    /\ UNCHANGED <<cache_files, index_text, started>>
    /\ WorkerFrame

\* a thread calls is_cached(url)
StartIsCached(t, url) ==
    /\ threads[t].pc = "idle" /\ threads[t].calls < MaxCalls
    /\ Step(t, [NoThread EXCEPT !.pc = "ic_check", !.op = "is_cached",
                                !.url = url,
                                !.calls = threads[t].calls + 1])
    /\ started' = started \cup {[thread |-> t, op |-> "is_cached",
                                 url |-> url]}
    /\ UNCHANGED <<index, cache_files, index_text>>
    /\ WorkerFrame

\* lines 66-67: if cache_key not in self.index: return False
IsCachedCheck(t) ==
    /\ threads[t].pc = "ic_check"
    /\ Step(t, IF get_cache_key(threads[t].url) \notin DOMAIN index
               THEN Finish(t, FALSE)
               ELSE [threads[t] EXCEPT !.pc = "ic_read"])
    /\ UNCHANGED <<index, cache_files, index_text, started>>
    /\ WorkerFrame

\* lines 69-76: cache_info = self.index[cache_key], the test of its date,
\* cache_file
IsCachedRead(t) ==
    /\ threads[t].pc = "ic_read"
    /\ LET key == get_cache_key(threads[t].url) IN
       Step(t, IF key \notin DOMAIN index
               THEN Raise(t, "KeyError")
               ELSE IF Expired(index[key], now)
               THEN [threads[t] EXCEPT !.pc = "rm_check"]
               ELSE [threads[t] EXCEPT !.pc = "ic_exists",
                                       !.cache_file = index[key].filename])
    /\ UNCHANGED <<index, cache_files, index_text, started>>
    /\ WorkerFrame

\* line 79: return cache_file.exists()
IsCachedExists(t) ==
    /\ threads[t].pc = "ic_exists"
    /\ Step(t, Finish(t, threads[t].cache_file \in DOMAIN cache_files))
    /\ UNCHANGED <<index, cache_files, index_text, started>>
    /\ WorkerFrame

\* a thread calls clear_expired()
StartClearExpired(t) ==
    /\ threads[t].pc = "idle" /\ threads[t].calls < MaxCalls
    /\ Step(t, [NoThread EXCEPT !.pc = "clear_scan", !.op = "clear_expired",
                                !.calls = threads[t].calls + 1])
    /\ started' = started \cup {[thread |-> t, op |-> "clear_expired",
                                 url |-> ""]}
    /\ UNCHANGED <<index, cache_files, index_text>>
    /\ WorkerFrame

\* lines 128-133: expired_keys
ClearScan(t) ==
    /\ threads[t].pc = "clear_scan"
    /\ Step(t, [threads[t] EXCEPT
                   !.pc = "clear_next",
                   !.keys = {k \in DOMAIN index : Expired(index[k], now)}])
    /\ UNCHANGED <<index, cache_files, index_text, started>>
    /\ WorkerFrame

\* lines 135-137: the next key of expired_keys, url = self.index[key]['url']
ClearNext(t) ==
    /\ threads[t].pc = "clear_next"
    /\ Step(t, IF threads[t].keys = {}
               THEN Finish(t, FALSE)
               ELSE LET key == CHOOSE k \in threads[t].keys : TRUE IN
                    IF key \notin DOMAIN index
                    THEN Raise(t, "KeyError")
                    ELSE [threads[t] EXCEPT !.pc = "rm_check",
                                            !.url = index[key].url,
                                            !.keys = @ \ {key}])
    /\ UNCHANGED <<index, cache_files, index_text, started>>
    /\ WorkerFrame

\* no thread but the caller's
WorkersIdle ==
    /\ threads = [t \in Threads |-> NoThread]
    /\ index_text = Text("absent", EmptyMap, 0)
    /\ started = {}

\* a CacheManager that holds entries for some locators, added at time 0,
\* at time 0 or MaxTime, and threads about to call it
CacheHeld ==
    \E held \in SUBSET Urls, t \in {0, MaxTime} :
        LET st == [index |-> [k \in {get_cache_key(u) : u \in held} |->
                                 [url |-> k[2],
                                  filename |-> cache_filename(k, "a.zip"),
                                  original_name |-> "a.zip", date |-> 0,
                                  size |-> FullSize]],
                   files |-> [f \in {cache_filename(get_cache_key(u), "a.zip") :
                                        u \in held} |-> FullSize],
                   disk |-> [exists |-> FALSE, doc |-> {}]]
        IN  /\ now = t
            /\ index = st.index
            /\ cache_files = st.files
            /\ index_file = IF held = {} THEN st.disk ELSE save_index(st).disk
            /\ call = NoCall
            /\ hist = [u \in Urls |-> [state |-> IF u \in held THEN "added"
                                                 ELSE "never",
                                       at |-> 0]]
            /\ index_text = IF held = {} THEN Text("absent", EmptyMap, 0)
                            ELSE TextOf(st.index)
WorkersInit ==
    /\ CacheHeld
    /\ threads = [t \in Threads |-> NoThread]
    /\ started = {}

NextWorkers ==
    \E t \in Threads :
        \/ \E url \in Urls, name \in Names : StartAdd(t, url, name)
        \/ AddCopy(t)
        \/ AddBuildEntry(t)
        \/ AddSetEntry(t)
        \/ SaveOpen(t)
        \/ SaveDumpBegin(t)
        \/ SaveDumpEnd(t)
        \/ SaveClose(t)
        \/ \E url \in Urls : StartRemove(t, url)
        \/ RemoveCheck(t)
        \/ RemoveRead(t)
        \/ RemoveExists(t)
        \/ RemoveUnlink(t)
        \/ RemoveDel(t)
        \/ \E url \in Urls : StartIsCached(t, url)
        \/ IsCachedCheck(t)
        \/ IsCachedRead(t)
        \/ IsCachedExists(t)
        \/ StartClearExpired(t)
        \/ ClearScan(t)
        \/ ClearNext(t)

(***************************************************************************)
(* EnhancedCopernicusScraper.process_tutorial: the tasks it builds from    *)
(* the anchors of a tutorial page, and the workers of the pool that        *)
(* download_batch starts on them, each at its own step of download_file.   *)
(***************************************************************************)
MaxAnchors == 2
MaxWorkers == 2
\* an href, as its path segments; the last one is the file name
Hrefs == {<<"d1", "a.zip">>, <<"d1", "b.zip">>, <<"d2", "a.zip">>,
          <<"d1", "about">>}
\* re.compile(pattern, re.I): the hrefs that name a file of a known type
file_patterns == {"a.zip", "b.zip"}
Last(href) == href[Len(href)]

\* extract_resources: one resource per matching anchor, in document order
RECURSIVE extract_resources(_)
extract_resources(anchors) ==
    IF anchors = <<>> THEN <<>>
    ELSE LET href == Head(anchors)
             rest == extract_resources(Tail(anchors))
         IN IF Last(href) \in file_patterns
                THEN <<[url |-> href, filename |-> Last(href)]>> \o rest
                ELSE rest

\* process_tutorial, lines 439-446: a task per resource whose file is not
\* in the tutorial directory with a size above zero
RECURSIVE download_tasks(_, _)
download_tasks(resources, files) ==
    IF resources = <<>> THEN <<>>
    ELSE LET resource == Head(resources)
             filepath == resource.filename
             rest == download_tasks(Tail(resources), files)
         IN IF filepath \in DOMAIN files /\ files[filepath] > 0
                THEN rest
                ELSE <<[url |-> resource.url, path |-> filepath]>> \o rest

NoTutorial ==
    [status |-> "idle", anchors |-> <<>>, files |-> EmptyMap,
     max_workers |-> 1, tasks |-> <<>>, work |-> <<>>, results |-> <<>>]

\* the tasks a worker of the pool has taken and not finished
Busy == {i \in DOMAIN tutorial.work :
             tutorial.work[i] \in {"taken", "writing"}}

\* process_tutorial up to the submission of the batch
ProcessTutorial ==
    /\ tutorial.status = "called"
    /\ LET tasks == download_tasks(extract_resources(tutorial.anchors),
                                   tutorial.files)
       IN tutorial' =
              IF tasks = <<>>
                  THEN [tutorial EXCEPT !.status = "returned"]
                  ELSE [tutorial EXCEPT
                            !.status = "running",
                            !.tasks = tasks,
                            !.work = [i \in DOMAIN tasks |-> "queued"]]
    /\ UNCHANGED <<cacheVars, dlVars, crawlVars, retry_loop, naming,
                   workerVars, analysisVars>>

\* a free worker of the pool takes the next task submitted
WorkerTake(i) ==
    /\ tutorial.status = "running"
    /\ i \in DOMAIN tutorial.work
    /\ tutorial.work[i] = "queued"
    /\ \A j \in DOMAIN tutorial.work :
           j < i => tutorial.work[j] # "queued"
    /\ Cardinality(Busy) < tutorial.max_workers
    /\ tutorial' = [tutorial EXCEPT !.work[i] = "taken"]
    /\ UNCHANGED <<cacheVars, dlVars, crawlVars, retry_loop, naming,
                   workerVars, analysisVars>>

\* download_file up to the point where it holds the destination open:
\* shutil.copy2 on a cache hit (line 197), open(filepath, 'wb') after a
\* response (line 213); or the retrieval fails and nothing is opened
WorkerOpen(i, met) ==
    /\ tutorial.status = "running"
    /\ i \in DOMAIN tutorial.work
    /\ tutorial.work[i] = "taken"
    /\ tutorial' =
           IF met = "error"
               THEN [tutorial EXCEPT
                         !.work[i] = "done",
                         !.results = Append(@, [task |-> i,
                                                success |-> FALSE])]
               ELSE [tutorial EXCEPT
                         !.work[i] = "writing",
                         !.files = MapPut(@, tutorial.tasks[i].path, 0)]
    /\ UNCHANGED <<cacheVars, dlVars, crawlVars, retry_loop, naming,
                   workerVars, analysisVars>>

\* the destination is written and closed, the result is returned
WorkerClose(i) ==
    /\ tutorial.status = "running"
    /\ i \in DOMAIN tutorial.work
    /\ tutorial.work[i] = "writing"
    /\ tutorial' =
           [tutorial EXCEPT
                !.work[i] = "done",
                !.files = MapPut(@, tutorial.tasks[i].path, FullSize),
                !.results = Append(@, [task |-> i, success |-> TRUE])]
    /\ UNCHANGED <<cacheVars, dlVars, crawlVars, retry_loop, naming,
                   workerVars, analysisVars>>

\* download_batch has collected every future; process_tutorial returns
TutorialReturn ==
    /\ tutorial.status = "running"
    /\ \A i \in DOMAIN tutorial.work : tutorial.work[i] = "done"
    /\ tutorial' = [tutorial EXCEPT !.status = "returned"]
    /\ UNCHANGED <<cacheVars, dlVars, crawlVars, retry_loop, naming,
                   workerVars, analysisVars>>

RECURSIVE Pages(_)
Pages(n) ==
    IF n = 0 THEN {<<>>}
    ELSE Pages(n - 1) \cup
         {Append(p, h) : p \in {q \in Pages(n - 1) : Len(q) = n - 1},
                         h \in Hrefs}

TutorialIdle == tutorial = NoTutorial
TutorialInit ==
    \E anchors \in Pages(MaxAnchors), kept \in SUBSET file_patterns,
       size \in {0, FullSize}, max_workers \in 1..MaxWorkers :
        tutorial = [NoTutorial EXCEPT
                        !.status = "called",
                        !.anchors = anchors,
                        !.files = [f \in kept |-> size],
                        !.max_workers = max_workers]

NextTutorial ==
    \/ ProcessTutorial
    \/ \E i \in 1..MaxAnchors : WorkerTake(i)
    \/ \E i \in 1..MaxAnchors, met \in {"copy", "fetch", "error"} :
           WorkerOpen(i, met)
    \/ \E i \in 1..MaxAnchors : WorkerClose(i)
    \/ TutorialReturn

(***************************************************************************)
(* copernicus_utils.detect_extremes and copernicus_utils.quality_check.    *)
(* A series is the sequence of its values in the order of its index; the   *)
(* loops count from 0 as enumerate does, ts[i + 1] is the value at i.      *)
(***************************************************************************)
MaxSamples == 4
MaxSteps == 6
\* a missing value; the values of a series are not negative
NaN == 0 - 1
Values == {NaN, 0, 1, 2}
\* an optional argument that was not given
None == 0

RECURSIVE SeriesOver(_, _)
SeriesOver(V, n) ==
    IF n = 0 THEN {<<>>}
    ELSE SeriesOver(V, n - 1) \cup
         {Append(q, v) : q \in {r \in SeriesOver(V, n - 1) : Len(r) = n - 1},
                         v \in V}

\* ts > threshold: False for a missing value
extreme_mask(ts, threshold, i) ==
    IF ts[i + 1] = NaN THEN FALSE ELSE ts[i + 1] > threshold

\* ts[event_start:event_end].  The bounds are index labels.  On a
\* DatetimeIndex the slice is by label and holds both ends; on an integer
\* index (the default index of pd.Series(data)) a slice of integers is by
\* position and leaves the end out.
event_slice(ts, labels, event_start, event_end) ==
    IF labels = "datetime"
    THEN SubSeq(ts, event_start + 1, event_end + 1)
    ELSE SubSeq(ts, event_start + 1, event_end)

\* event_data.max(): NaN for an empty selection
RECURSIVE max_value(_)
max_value(event_data) ==
    IF event_data = <<>> THEN NaN
    ELSE LET rest == max_value(Tail(event_data))
         IN IF Head(event_data) > rest THEN Head(event_data) ELSE rest

\* lines 837-846 and 856-866: the event from event_start to event_end is
\* appended unless it is shorter than duration
close_event(events, ts, labels, duration, event_start, event_end) ==
    LET event_data == event_slice(ts, labels, event_start, event_end)
    IN IF duration = None \/ Len(event_data) >= duration
       THEN Append(events, [start |-> event_start, end |-> event_end,
                            duration |-> Len(event_data),
                            max_value |-> max_value(event_data)])
       ELSE events

\* lines 828-846: the loop over the samples, from sample i on
RECURSIVE group_events(_, _, _, _, _, _)
group_events(ts, labels, threshold, duration, i, s) ==
    IF i = Len(ts) THEN s
    ELSE IF extreme_mask(ts, threshold, i) /\ ~s.in_event
    THEN group_events(ts, labels, threshold, duration, i + 1,
             [s EXCEPT !.in_event = TRUE, !.event_start = i])
    ELSE IF ~extreme_mask(ts, threshold, i) /\ s.in_event
    THEN group_events(ts, labels, threshold, duration, i + 1,
             [s EXCEPT !.in_event = FALSE,
                       !.events = close_event(@, ts, labels, duration,
                                              s.event_start, i - 1)])
    ELSE group_events(ts, labels, threshold, duration, i + 1, s)

\* detect_extremes(data, 'absolute', threshold, duration): the rows of the
\* frame it returns (the columns mean_value and sum_excess left out)
detect_extremes(ts, labels, threshold, duration) ==
    LET s == group_events(ts, labels, threshold, duration, 0,
                 [in_event |-> FALSE, event_start |-> 0, events |-> <<>>])
    IN IF s.in_event
       THEN close_event(s.events, ts, labels, duration, s.event_start,
                        Len(ts) - 1)
       ELSE s.events

\* np.isnan(data).sum()
nan_count(data) == Cardinality({i \in DOMAIN data : data[i] = NaN})

\* lines 970-977: the loop over nan_mask, from step i on
RECURSIVE find_gaps(_, _, _, _)
find_gaps(data, max_gap, i, s) ==
    IF i = Len(data) THEN s
    ELSE LET is_nan == data[i + 1] = NaN IN
         IF is_nan /\ ~s.in_gap
         THEN find_gaps(data, max_gap, i + 1,
                  [s EXCEPT !.in_gap = TRUE, !.gap_start = i])
         ELSE IF ~is_nan /\ s.in_gap
         THEN LET gap_length == i - s.gap_start IN
              find_gaps(data, max_gap, i + 1,
                  [s EXCEPT !.in_gap = FALSE,
                            !.gaps = IF gap_length > max_gap
                                     THEN Append(@, <<s.gap_start, i,
                                                      gap_length>>)
                                     ELSE @])
         ELSE find_gaps(data, max_gap, i + 1, s)

\* max(g[2] for g in gaps) if gaps else 0
RECURSIVE max_gap_length(_)
max_gap_length(gaps) ==
    IF gaps = <<>> THEN 0
    ELSE LET rest == max_gap_length(Tail(gaps))
         IN IF Head(gaps)[3] > rest THEN Head(gaps)[3] ELSE rest

\* quality_check(ds, var_name, None, max_gap, min_coverage) on a variable
\* with the time dimension only; min_coverage is a fraction <<p, q>>.  The
\* keys that describe the values (min, max, mean, std) are left out.
quality_check(data, max_gap, min_coverage) ==
    LET missing == nan_count(data)
        covered == (Len(data) - missing) * min_coverage[2]
                       >= min_coverage[1] * Len(data)
    IN IF max_gap # None
       THEN LET gaps == find_gaps(data, max_gap, 0,
                            [in_gap |-> FALSE, gap_start |-> 0,
                             gaps |-> <<>>]).gaps
            IN [missing_count |-> missing, checked |-> TRUE,
                long_gaps |-> gaps,
                max_gap_length |-> max_gap_length(gaps),
                quality_pass |-> covered /\ max_gap_length(gaps) <= max_gap]
       ELSE [missing_count |-> missing, checked |-> FALSE,
             long_gaps |-> <<>>, max_gap_length |-> 0,
             quality_pass |-> covered]

NoAnalysis ==
    [fn |-> "none", status |-> "idle", data |-> <<>>, index |-> "datetime",
     threshold |-> 0, duration |-> None, max_gap |-> None,
     min_coverage |-> <<4, 5>>, events |-> <<>>,
     result |-> [missing_count |-> 0, checked |-> FALSE, long_gaps |-> <<>>,
                 max_gap_length |-> 0, quality_pass |-> FALSE]]

DetectExtremes ==
    /\ analysis.fn = "detect_extremes" /\ analysis.status = "called"
    /\ analysis' = [analysis EXCEPT
           !.status = "returned",
           !.events = detect_extremes(analysis.data, analysis.index,
                                      analysis.threshold, analysis.duration)]
    /\ UNCHANGED <<cacheVars, dlVars, crawlVars, retry_loop, naming,
                   workerVars, tutorialVars>>

QualityCheck ==
    /\ analysis.fn = "quality_check" /\ analysis.status = "called"
    /\ analysis' = [analysis EXCEPT
           !.status = "returned",
           !.result = quality_check(analysis.data, analysis.max_gap,
                                    analysis.min_coverage)]
    /\ UNCHANGED <<cacheVars, dlVars, crawlVars, retry_loop, naming,
                   workerVars, tutorialVars>>

AnalysisIdle == analysis = NoAnalysis
\* a series with a DatetimeIndex, or with the default integer index
ExtremesInit ==
    \E ts \in SeriesOver(Values, MaxSamples), labels \in {"datetime", "range"},
       duration \in {None} \cup (1..MaxSamples - 1) :
        analysis = [NoAnalysis EXCEPT
                        !.fn = "detect_extremes", !.status = "called",
                        !.data = ts, !.index = labels, !.threshold = 1,
                        !.duration = duration]
\* a variable over time, some steps missing
QualityInit ==
    \E data \in SeriesOver({NaN, 1}, MaxSteps) \ {<<>>},
       max_gap \in {None, 1, 2}, min_coverage \in {<<4, 5>>, <<1, 2>>} :
        analysis = [NoAnalysis EXCEPT
                        !.fn = "quality_check", !.status = "called",
                        !.data = data, !.max_gap = max_gap,
                        !.min_coverage = min_coverage]

NextExtremes == DetectExtremes
NextQuality == QualityCheck

vars == <<cacheVars, dlVars, crawlVars, otherVars>>

\* the state after construction
Init ==
    CacheInit /\ DownloaderInit /\ CrawlIdle /\ RetryIdle /\ NamingIdle
        /\ WorkersIdle /\ TutorialIdle /\ AnalysisIdle
\* the same, for a downloader with or without a CacheManager
InitAny ==
    CacheInit /\ DownloaderAnyInit /\ CrawlIdle /\ RetryIdle /\ NamingIdle
        /\ WorkersIdle /\ TutorialIdle /\ AnalysisIdle
\* the same, with a scraper about to crawl one of the sites of the model
InitCrawl ==
    CacheInit /\ DownloaderInit /\ CrawlInit /\ RetryIdle /\ NamingIdle
        /\ WorkersIdle /\ TutorialIdle /\ AnalysisIdle
\* the same, with a deep scraper about to crawl a site of four pages
InitDeep ==
    CacheInit /\ DownloaderInit /\ DeepInit /\ RetryIdle /\ NamingIdle
        /\ WorkersIdle /\ TutorialIdle /\ AnalysisIdle
\* the same, with a CopernicusScraper.download_file call about to start
InitRetry ==
    CacheInit /\ DownloaderInit /\ CrawlIdle /\ RetryInit /\ NamingIdle
        /\ WorkersIdle /\ TutorialIdle /\ AnalysisIdle
\* the same, with a sanitize_filename call about to return
InitNaming ==
    CacheInit /\ DownloaderInit /\ CrawlIdle /\ RetryIdle /\ NamingInit
        /\ WorkersIdle /\ TutorialIdle /\ AnalysisIdle
\* the same, with threads about to call a CacheManager that holds entries
InitWorkers ==
    WorkersInit /\ DownloaderInit /\ CrawlIdle /\ RetryIdle /\ NamingIdle
        /\ TutorialIdle /\ AnalysisIdle
\* the same, with a detect_extremes call about to start
InitExtremes ==
    CacheInit /\ DownloaderInit /\ CrawlIdle /\ RetryIdle /\ NamingIdle
        /\ WorkersIdle /\ TutorialIdle /\ ExtremesInit
\* the same, with a quality_check call about to start
InitQuality ==
    CacheInit /\ DownloaderInit /\ CrawlIdle /\ RetryIdle /\ NamingIdle
        /\ WorkersIdle /\ TutorialIdle /\ QualityInit
\* the same, with a process_tutorial call about to start on a page
InitTutorial ==
    CacheInit /\ DownloaderInit /\ CrawlIdle /\ RetryIdle /\ NamingIdle
        /\ WorkersIdle /\ TutorialInit /\ AnalysisIdle

\* the CacheManager alone, owning its directory
SpecCache == Init /\ [][NextCache]_vars
\* the CacheManager and something else deleting files of its directory
SpecCacheExt == Init /\ [][NextCacheExt]_vars
\* download_batch calls, one after the other, on a cache that callers may
\* have filled before
SpecBatch == Init /\ [][NextBatch]_vars
\* the same calls on a downloader that may have no CacheManager
SpecBatchAny == InitAny /\ [][NextBatch]_vars
\* a crawl session of either scraper on a site, and a second session of a
\* new scraper on the same site
SpecCrawl == InitCrawl /\ [][NextCrawl]_vars
FairSpecCrawl == SpecCrawl /\ WF_vars(NextCrawl)
\* one deep_crawl session on a site of four pages
SpecDeep == InitDeep /\ [][NextDeep]_vars
\* one CopernicusScraper.download_file call
SpecRetry == InitRetry /\ [][NextRetry]_vars
\* one sanitize_filename call
SpecNaming == InitNaming /\ [][NextNaming]_vars
\* threads that call one CacheManager, each step by step
SpecWorkers == InitWorkers /\ [][NextWorkers]_vars
\* one process_tutorial call and the workers of its download_batch
SpecTutorial == InitTutorial /\ [][NextTutorial]_vars
\* one detect_extremes call
SpecExtremes == InitExtremes /\ [][NextExtremes]_vars
\* one quality_check call
SpecQuality == InitQuality /\ [][NextQuality]_vars

(***************************************************************************)
(* Claims about the CacheManager.                                          *)
(***************************************************************************)
\* what is_cached(url) returns when called in the current state
IsCachedNow(url) == is_cached(CacheState, url, now).ret

\* the entry the last call found for its locator, if any
PreHas == get_cache_key(call.url) \in DOMAIN call.pre.index
PreInfo == call.pre.index[get_cache_key(call.url)]
PreFilePresent == PreInfo.filename \in DOMAIN call.pre.files

\* C1: is_cached(L) is false for a locator that was never added; from a
\* successful add_to_cache(L, file) on it is true for as long as the entry
\* is not older than expire_days and remove_cache(L) was not called.
C1_CachedUntilExpiry ==
    \A url \in Urls :
        /\ hist[url].state = "never" => ~IsCachedNow(url)
        /\ (hist[url].state = "added" /\ now - hist[url].at <= expire_days)
               => IsCachedNow(url)
C1_Witness ==
    \E url \in Urls :
        /\ hist[url].state = "added"
        /\ now - hist[url].at = expire_days
        /\ call.op = "is_cached" /\ call.url = url /\ call.ret = TRUE

\* C2: is_cached on an entry whose backing file is gone returns false and
\* does not raise, whether the entry is expired or not.
C2_MissingFileIsMiss ==
    (call.op = "is_cached" /\ PreHas /\ ~PreFilePresent)
        => (call.ret = FALSE /\ ~call.raised)
C2_Witness ==
    /\ call.op = "is_cached" /\ PreHas /\ ~PreFilePresent
    /\ Expired(PreInfo, call.at)
    /\ call.ret = FALSE

\* C3: remove_cache of a locator absent from the index raises nothing
\* and changes neither the index, nor the directory, nor the persisted index.
C3_RemoveAbsentNoOp ==
    (call.op = "remove_cache" /\ ~PreHas)
        => (~call.raised /\ CacheState = call.pre)
C3_Witness ==
    /\ call.op = "remove_cache" /\ ~PreHas
    /\ hist[call.url].state = "removed"
    /\ DOMAIN index # {}

\* C9: is_cached on an entry older than expire_days returns false, and
\* afterwards the index has no entry for the locator, the entry's file is
\* gone and the persisted index is the index.
C9_ExpiredEvicted ==
    (call.op = "is_cached" /\ PreHas /\ Expired(PreInfo, call.at))
        => /\ call.ret = FALSE
           /\ get_cache_key(call.url) \notin DOMAIN index
           /\ PreInfo.filename \notin DOMAIN cache_files
           /\ index_file.exists /\ load_index(index_file) = index
C9_Witness ==
    /\ call.op = "is_cached" /\ PreHas /\ Expired(PreInfo, call.at)
    /\ PreFilePresent
    /\ DOMAIN index # {}

\* C10: get_cached_file(L) returns a path exactly when the entry of L
\* exists, is not expired and has its file; the path is a file of the cache
\* directory; otherwise it returns None; it never raises.
C10_PathIffCached ==
    call.op = "get_cached_file"
        => /\ ~call.raised
           /\ call.ret # {} <=>
                  (PreHas /\ ~Expired(PreInfo, call.at) /\ PreFilePresent)
           /\ call.ret # {} => call.ret = {PreInfo.filename}
           /\ call.ret \subseteq DOMAIN cache_files
C10_Witness ==
    /\ call.op = "get_cached_file"
    /\ call.ret # {}
    /\ call.at = expire_days
C10_WitnessMissing ==
    /\ call.op = "get_cached_file"
    /\ call.ret = {}
    /\ PreHas /\ ~Expired(PreInfo, call.at) /\ ~PreFilePresent

\* C11: after clear_expired no entry older than expire_days is left in the
\* index and no file of an evicted entry is left; every other entry and its
\* file are as they were; the count reported is the number of evicted entries.
C11_ClearExpired ==
    call.op = "clear_expired"
        => /\ ~call.raised
           /\ \A k \in DOMAIN index : ~Expired(index[k], call.at)
           /\ \A k \in DOMAIN call.pre.index :
                  IF Expired(call.pre.index[k], call.at)
                  THEN /\ k \notin DOMAIN index
                       /\ call.pre.index[k].filename \notin DOMAIN cache_files
                  ELSE /\ k \in DOMAIN index
                       /\ index[k] = call.pre.index[k]
                       /\ \A f \in {index[k].filename} :
                              /\ f \in DOMAIN cache_files
                                     <=> f \in DOMAIN call.pre.files
                              /\ f \in DOMAIN cache_files
                                     => cache_files[f] = call.pre.files[f]
           /\ call.ret = Cardinality(DOMAIN call.pre.index \ DOMAIN index)
C11_Witness ==
    /\ call.op = "clear_expired"
    /\ call.ret = 1
    /\ \E k \in DOMAIN call.pre.index :
           /\ Expired(call.pre.index[k], call.at)
           /\ call.pre.index[k].filename \in DOMAIN call.pre.files
    /\ \E k \in DOMAIN index : call.at - index[k].date = expire_days

(***************************************************************************)
(* Claims about the ParallelDownloader.                                    *)
(***************************************************************************)
Results == batch.results
NTasks == Len(batch.tasks)
DistinctLocators ==
    \A i, j \in DOMAIN batch.tasks :
        batch.tasks[i].url = batch.tasks[j].url => i = j

\* C4: a batch of N tasks with pairwise distinct locators returns N
\* results, exactly one with the locator of each task.
C4_OneResultPerTask ==
    (batch.status = "returned" /\ DistinctLocators)
        => /\ Len(Results) = NTasks
           /\ \A i \in DOMAIN batch.tasks :
                  Cardinality({k \in DOMAIN Results :
                                  Results[k].url = batch.tasks[i].url}) = 1
C4_Witness ==
    /\ batch.status = "returned" /\ DistinctLocators
    /\ NTasks = MaxTasks
    /\ \E j, k \in DOMAIN Results :
           /\ Results[j].success /\ Results[j].cached
           /\ ~Results[k].success

\* C5: with use_cache on, a task whose locator has a valid entry (not
\* expired, file present) ends with success and cached true, without a
\* network retrieval.
C5_CacheShortCircuit ==
    \A k \in DOMAIN Results :
        (batch.use_cache /\ cache_manager /\ audit[k].valid)
            => /\ Results[k].success
               /\ Results[k].cached
               /\ audit[k].gets = 0
\* C7: a batch never raises, it returns one result per task, and every
\* failed result carries an error description.
C7_BatchNeverRaises ==
    /\ batch.status # "raised"
    /\ batch.status = "returned" => Len(Results) = NTasks
    /\ \A k \in DOMAIN Results :
           ~Results[k].success => Results[k].error # NoError
C7_Witness ==
    /\ batch.status = "returned"
    /\ NTasks = MaxTasks
    /\ \E j, k \in DOMAIN Results :
           /\ ~Results[j].success /\ Results[j].error = ErrorText("evict")
           /\ ~Results[k].success /\ Results[k].error = ErrorText("timeout")

\* C8: a task whose fetch timed out has success false and an error, and
\* leaves no file at a destination that had none before.
C8_NoPartialFile ==
    (Results # <<>> /\ audit[Len(audit)].timed_out
                    /\ ~audit[Len(audit)].existed)
        => LET r == Results[Len(Results)] IN
           /\ ~r.success
           /\ r.error # NoError
           /\ r.filepath \notin DOMAIN dest_files

\* C12: a task whose fetch succeeded and whose add_to_cache failed has
\* success true and the failure in its error field, and its complete file
\* is at the destination.
C12_CacheWriteBestEffort ==
    /\ \A k \in DOMAIN Results :
           audit[k].add_failed
               => /\ Results[k].success
                  /\ ~Results[k].cached
                  /\ Results[k].error # NoError
                  /\ Results[k].filepath \in DOMAIN dest_files
    /\ (Results # <<>> /\ audit[Len(audit)].add_failed)
           => dest_files[Results[Len(Results)].filepath] = FullSize
C12_Witness ==
    /\ Results # <<>>
    /\ audit[Len(audit)].add_failed
    /\ Results[Len(Results)].success
    /\ Results[Len(Results)].error = ErrorText("save")
    /\ load_index(index_file) # index

\* C13: a download_file call makes at most one network retrieval attempt
\* for its locator.
C13_AtMostOneAttempt ==
    \A k \in DOMAIN audit : audit[k].attempts <= 1

(***************************************************************************)
(* Claims about the crawlers.                                              *)
(***************************************************************************)
CrawlDone == crawl.status = "done"

\* every crawl session returns (under FairSpecCrawl)
CrawlTerminates == <>(CrawlDone /\ crawl.run = 2)
\* a session that has not returned can take a step
CrawlNotStuck == crawl.status = "running" => ENABLED NextCrawl
\* two sessions of deep_crawl on the same site return the same list
DeepSameList ==
    (crawl.scraper = "deep" /\ CrawlDone /\ crawl.run = 2)
        => crawl.result = crawl.first

\* C6: a crawl session on a finite site, cycles included, returns, and
\* its resource list is the same on every run over the same site.
C6_TerminatesSameList ==
    /\ CrawlNotStuck
    /\ (CrawlDone /\ crawl.run = 2) => crawl.result = crawl.first

\* the pages requested in the session
Fetched == {crawl.fetched[i] : i \in DOMAIN crawl.fetched}
\* deep_crawl requests pages of the root's domain only
DeepSameOrigin ==
    crawl.scraper = "deep" => \A u \in Fetched : netloc(u) = netloc(site.root)

\* C16: every page requested in a crawl session has the domain of the
\* session's root, with either scraper.
C16_SameOrigin ==
    \A u \in Fetched : netloc(u) = netloc(site.root)

\* no locator is requested twice in a session
FetchedOnce ==
    \A i, j \in DOMAIN crawl.fetched :
        crawl.fetched[i] = crawl.fetched[j] => i = j
\* a call on a visited locator requests nothing, marks nothing and returns
\* the empty list to its caller
SkipStep ==
    (Running /\ Top.pc = "enter" /\ Top.url \in crawl.visited)
        => /\ crawl'.fetched = crawl.fetched
           /\ crawl'.visited = crawl.visited
           /\ IF Len(crawl.stack) = 1
              THEN crawl'.status = "done" /\ crawl'.result = <<>>
              ELSE crawl'.stack =
                       SubSeq(crawl.stack, 1, Len(crawl.stack) - 1)
\* the visited set of a session only grows
VisitedGrows ==
    crawl'.run = crawl.run => crawl.visited \subseteq crawl'.visited

\* C17: in a crawl session no locator is requested twice; a call on a
\* locator of the visited set returns the empty list without a request;
\* no locator leaves the visited set during the session.
C17_VisitedOnce ==
    /\ [](FetchedOnce /\ Fetched = crawl.visited)
    /\ [][SkipStep /\ VisitedGrows]_vars
C17_Witness ==
    /\ crawl.skipped # {}
    /\ crawl.skipped \subseteq Fetched
    /\ FetchedOnce

\* the pages of the session that raised
FailedPages == (site.broken \cup site.torn) \cap Fetched
\* a session goes on after a page that raised
NoFailureEscapes == CrawlNotStuck
\* a page that failed when it was requested contributes no resource
BrokenYieldsNothing ==
    CrawlDone => \A i \in DOMAIN crawl.result :
                     crawl.result[i].source_page \notin site.broken

\* C18: a page that raises does not end the session, and contributes no
\* resource to its result, also when it raises after resources of the page
\* were found.
C18_FailedPageYieldsNothing ==
    /\ NoFailureEscapes
    /\ \A k \in DOMAIN crawl.stack :
           (crawl.stack[k].url \in FailedPages /\ crawl.stack[k].pc = "return")
               => crawl.stack[k].found = <<>>
    /\ CrawlDone => \A i \in DOMAIN crawl.result :
                        crawl.result[i].source_page \notin FailedPages

(***************************************************************************)
(* Claims about CopernicusScraper.download_file.                           *)
(***************************************************************************)
Failed == {i \in DOMAIN retry_loop.log : retry_loop.log[i] # "ok"}
Returned == retry_loop.status = "returned"

\* C14: download_file makes at most `retry` attempts; only its last
\* attempt can have succeeded, and then it returns True; after its k-th
\* failed attempt (k = 0, 1, ...) it has slept 2^k seconds, but not after
\* the last of `retry`; it returns False exactly when `retry` attempts
\* failed, for retry = 0 without an attempt.
C14_RetryBackoff ==
    LET log == retry_loop.log
        retry == retry_loop.retry
        slept == IF retry > 0 /\ Cardinality(Failed) = retry
                 THEN retry - 1 ELSE Cardinality(Failed)
    IN  /\ Len(log) <= retry
        /\ \A i \in DOMAIN log : log[i] = "ok" => (i = Len(log) /\ Returned)
        /\ retry_loop.sleeps = [k \in 1..slept |-> 2 ^ (k - 1)]
        /\ Returned =>
               /\ retry_loop.ret <=> (log # <<>> /\ log[Len(log)] = "ok")
               /\ ~retry_loop.ret <=> Cardinality(Failed) = retry
               /\ ~retry_loop.ret => Len(log) = retry
C14_Witness ==
    /\ Returned /\ retry_loop.ret
    /\ retry_loop.retry = retry_default
    /\ Len(retry_loop.log) = retry_default
    /\ retry_loop.sleeps = <<1, 2>>
C14_WitnessExhausted ==
    /\ Returned /\ ~retry_loop.ret
    /\ Len(retry_loop.log) = retry_default
    /\ retry_loop.sleeps = <<1, 2>>
C14_WitnessZero ==
    /\ Returned /\ ~retry_loop.ret
    /\ retry_loop.retry = 0 /\ retry_loop.log = <<>>

(***************************************************************************)
(* Claims about sanitize_filename.                                         *)
(***************************************************************************)
Letters ==
    {"a", "T", "u", "t", "o", "r", "i", "l", "S", "A", "n", "y", "s", "v"}
Digits == {"0", "1"}
NameReturned == naming.status = "returned"

\* what the returned name does satisfy: at most max_name_length
\* characters, none of them disallowed or a space, no two underscores in a
\* row, no underscore in front
NameWeak ==
    NameReturned =>
        /\ Len(naming.ret) <= max_name_length
        /\ \A i \in DOMAIN naming.ret :
               /\ naming.ret[i] \notin Disallowed \cup {" "}
               /\ (i > 1 /\ naming.ret[i] = "_") => naming.ret[i - 1] # "_"
        /\ naming.ret # <<>> => naming.ret[1] # "_"

\* C15: the name sanitize_filename returns has at most 50 characters, all
\* of them letters, digits or underscores, no two underscores in a row and
\* none in front or at the end; the title of the test gives
\* Tutorial_SST_Analysis_v1_0.
C15_SanitizedName ==
    NameReturned =>
        /\ Len(naming.ret) <= max_name_length
        /\ \A i \in DOMAIN naming.ret :
               /\ naming.ret[i] \in Letters \cup Digits \cup {"_"}
               /\ (i > 1 /\ naming.ret[i] = "_") => naming.ret[i - 1] # "_"
        /\ naming.ret # <<>> =>
               (naming.ret[1] # "_" /\ naming.ret[Len(naming.ret)] # "_")
        /\ naming.filename = ExampleTitle => naming.ret = ExampleName
\* the same for titles of letters, digits, spaces, underscores and
\* disallowed characters only
C15_PlainTitles ==
    (NameReturned /\ \A i \in DOMAIN naming.filename :
         naming.filename[i] \in Letters \cup Digits \cup Disallowed
                                   \cup {" ", "_"})
        => /\ \A i \in DOMAIN naming.ret :
                  naming.ret[i] \in Letters \cup Digits \cup {"_"}
           /\ naming.ret # <<>> => naming.ret[Len(naming.ret)] # "_"

(***************************************************************************)
(* Claims about the CacheManager under concurrent calls.                   *)
(***************************************************************************)
\* every thread is between two calls
Quiescent == \A t \in Threads : threads[t].pc = "idle"
\* the batch has finished: every thread made its calls
BatchFinished == Quiescent /\ \A t \in Threads : threads[t].calls = MaxCalls
\* the threads called add_to_cache only, each for a locator of its own
OnlyDistinctAdds ==
    \A c, d \in started :
        /\ c.op = "add_to_cache"
        /\ c.url = d.url => c.thread = d.thread
\* the entry of the index for url is well formed, and so is its file
WellFormedEntry(doc, url) ==
    /\ get_cache_key(url) \in DOMAIN doc
    /\ doc[get_cache_key(url)].url = url
    /\ doc[get_cache_key(url)].filename \in DOMAIN cache_files

\* C19: when threads that added different locators have finished, none of
\* them has raised, cache_index.json is a whole document, and the index
\* and the document both have a well-formed entry for every locator added.
C19_ConcurrentAddsKeepIndex ==
    (BatchFinished /\ OnlyDistinctAdds)
        => /\ \A t \in Threads : threads[t].raised = "None"
           /\ index_text.kind = "doc"
           /\ \A c \in started :
                  /\ WellFormedEntry(index, c.url)
                  /\ WellFormedEntry(index_text.doc, c.url)
\* the same without the exception of a concurrent save
C19_NoTornDocument ==
    (BatchFinished /\ OnlyDistinctAdds
         /\ \A t \in Threads : threads[t].raised = "None")
        => index_text.kind = "doc"
\* the index in memory does get every entry
C19_MemoryIndexWhole ==
    (BatchFinished /\ OnlyDistinctAdds)
        => \A c \in started : WellFormedEntry(index, c.url)

\* every entry of the index names a file of the cache directory
IndexHasFiles ==
    \A k \in DOMAIN index : index[k].filename \in DOMAIN cache_files

\* C20: in every state that calls of the CacheManager reach, whatever the
\* interleaving of their steps, every entry of the index names a file
\* that exists in the cache directory.
C20_IndexEntriesHaveFiles == IndexHasFiles
\* the same between the calls only
C20_QuiescentIndexHasFiles == Quiescent => IndexHasFiles

\* the threads called is_cached or remove_cache only, all for one locator,
\* which the cache held with an entry that is expired
SameExpiredLocator ==
    /\ \A t \in Threads : \E c \in started : c.thread = t
    /\ \A c, d \in started :
           /\ c.op \in {"is_cached", "remove_cache"}
           /\ c.url = d.url
           /\ hist[c.url].state = "added"
           /\ now - hist[c.url].at > expire_days

\* C21: two threads that call is_cached or remove_cache for the same
\* expired locator both return without an exception and report a miss,
\* and the entry and its file are gone.
C21_EvictionCriticalSection ==
    (BatchFinished /\ SameExpiredLocator)
        => /\ \A t \in Threads : /\ threads[t].raised = "None"
                                  /\ threads[t].ret = FALSE
           /\ \A c \in started :
                  /\ get_cache_key(c.url) \notin DOMAIN index
                  /\ cache_filename(get_cache_key(c.url), "a.zip")
                         \notin DOMAIN cache_files
\* what does hold: the entry and its file are gone, whoever raised
C21_EvictedInTheEnd ==
    (BatchFinished /\ SameExpiredLocator)
        => \A c \in started :
               /\ get_cache_key(c.url) \notin DOMAIN index
               /\ cache_filename(get_cache_key(c.url), "a.zip")
                      \notin DOMAIN cache_files

(***************************************************************************)
(* Claims about the destinations of one batch.                             *)
(***************************************************************************)
\* the tasks that hold their destination open
Writing == {i \in DOMAIN tutorial.work : tutorial.work[i] = "writing"}

\* C22: within one batch no two workers write to the same destination path
\* at the same time, for every task list process_tutorial builds from a
\* page's resources.
C22_ExclusiveDestination ==
    \A i, j \in Writing :
        i # j => tutorial.tasks[i].path # tutorial.tasks[j].path

\* the resources of the page have pairwise different file names
DistinctFilenames ==
    LET resources == extract_resources(tutorial.anchors)
    IN \A i, j \in DOMAIN resources :
           i # j => resources[i].filename # resources[j].filename

\* on a page whose resources have different file names the destinations
\* are exclusive
C22_ExclusiveWhenDistinct == DistinctFilenames => C22_ExclusiveDestination

\* two workers have written files of one page at the same time
C22_TwoWriters == Cardinality(Writing) = 2 /\ DistinctFilenames

(***************************************************************************)
(* Claims about the depth of a crawl.                                      *)
(***************************************************************************)
\* the calls of the session that are past their guard
Frames == {crawl.stack[i] : i \in DOMAIN crawl.stack}

\* C23: in a crawl session with maximum depth D no page is fetched at a
\* depth greater than D, and a page at depth D is fetched without any of
\* its links being followed: its loops over keyword links and sub-pages do
\* not run, and the call made for a download button returns at its guard.
C23_DepthBound ==
    /\ \A i \in DOMAIN crawl.depths : crawl.depths[i] <= site.max_depth
    /\ \A f \in Frames :
           /\ f.depth = site.max_depth => f.pc \notin {"links", "subpages"}
           /\ f.depth > site.max_depth => f.pc = "enter"

\* a page at depth D was fetched, in _crawl_level, and the call for one of
\* its download buttons is at its guard
C23_Witness ==
    /\ crawl.scraper = "multi"
    /\ Running
    /\ Top.depth = site.max_depth + 1
    /\ crawl.depths[Len(crawl.depths)] = site.max_depth
\* a page at depth D with links was fetched by deep_crawl, which returns
C23_WitnessDeep ==
    /\ crawl.scraper = "deep"
    /\ Running
    /\ Top.depth = site.max_depth /\ Top.pc = "return"
    /\ Top.url \notin site.broken \cup site.torn
    /\ \E l \in site.links[Top.url] :
           relevant(l) /\ netloc(l) = netloc(Top.url) /\ l \notin crawl.visited

(***************************************************************************)
(* Claims about the visited set and the sessions of one scraper object.    *)
(***************************************************************************)
ResourcesOf(list) == {list[i] : i \in DOMAIN list}

\* C24: every session starts with an empty visited set, so crawling a root
\* a second time on the same scraper object returns the same resources as
\* on a fresh scraper.
C24_SessionOwnsVisited ==
    /\ (Running /\ Top.depth = 0 /\ Top.pc = "enter")
           => crawl.visited = {}
    /\ (CrawlDone /\ crawl.run = 3)
           => ResourcesOf(crawl.result) = ResourcesOf(crawl.first)

\* the second session on one object returns nothing: its root is in the
\* visited set the first session left
C24_SecondSessionEmpty ==
    (CrawlDone /\ crawl.run = 3) => crawl.result = <<>>

C25_WitnessNoDocument ==
    /\ call.op = "remove_cache" /\ ~call.raised
    /\ ~index_file.exists
    /\ index = EmptyMap

(***************************************************************************)
(* Claims about what a deep_crawl session reaches.                         *)
(***************************************************************************)
\* the links of a page that deep_crawl follows: among the first 20
\* anchors, with a keyword, of the page's domain
followed(page) ==
    LET first == Head_(all_links(page), LinkCap)
    IN {first[i] : i \in DOMAIN first} \cap
           {u \in AllPages : relevant(u) /\ netloc(u) = netloc(page)}
\* the pages reachable from the root by a chain of at most n followed links
RECURSIVE Within(_)
Within(n) ==
    IF n = 0 THEN {site.root}
    ELSE Within(n - 1) \cup UNION {followed(p) : p \in Within(n - 1)}

\* C26: deep_crawl returns the resources of every page of the root's
\* domain that is reachable from the root by a chain of at most max_depth
\* followed links, whatever the order of the traversal.
C26_CrawlCompleteness ==
    CrawlDone =>
        \A page \in Within(site.max_depth) :
            Resource(page) \in ResourcesOf(crawl.result)

\* what deep_crawl returns are resources of pages within max_depth links
C26_OnlyReachable ==
    CrawlDone =>
        \A i \in DOMAIN crawl.result :
            crawl.result[i].source_page \in Within(site.max_depth)
\* the pages one link from the root are all crawled
C26_CompleteAtOne ==
    CrawlDone =>
        \A page \in Within(1) : Resource(page) \in ResourcesOf(crawl.result)

(***************************************************************************)
(* Claims about downloads that do not use the cache.                       *)
(***************************************************************************)
\* a download_file call of the batch returned in this step
TaskRan ==
    /\ batch'.pending \subseteq batch.pending
    /\ batch'.pending # batch.pending

\* a download_file call with use_cache=False, or of a downloader without
\* CacheManager, issues the retrieval and leaves the cache as it was
NoCacheStep ==
    (TaskRan /\ ~(batch.use_cache /\ cache_manager))
        => /\ index' = index
           /\ index_file' = index_file
           /\ cache_files' = cache_files
           /\ Len(audit') = Len(audit) + 1
           /\ audit'[Len(audit')].gets = 1

\* C27: with use_cache=False, or with no cache manager, download_file
\* never consults the cache and never changes it: it always issues the
\* network retrieval, and the index, the persisted index document and the
\* cache directory are the same after the call as before, also when a
\* valid entry for the locator exists.
C27_NoCacheUntouched == [][NoCacheStep]_vars

\* a download with use_cache=False was retrieved from the network while a
\* valid entry for its locator was held
C27_Witness ==
    /\ cache_manager /\ ~batch.use_cache
    /\ audit # <<>>
    /\ audit[Len(audit)].valid
    /\ audit[Len(audit)].gets = 1
    /\ ~Results[Len(Results)].cached
\* a download of a downloader without CacheManager, use_cache=True
C27_WitnessNoManager ==
    /\ ~cache_manager /\ batch.use_cache
    /\ audit # <<>>
    /\ audit[Len(audit)].gets = 1
    /\ index = EmptyMap /\ cache_files = EmptyMap

(***************************************************************************)
(* Claims about the results of a batch and their summary.                  *)
(***************************************************************************)
\* process_tutorial, lines 448-474: the summary of the results that
\* download_batch returned for the tasks, all zero without tasks
summary(tasks, results) ==
    IF tasks # <<>>
    THEN [resources |-> results,
          success |-> Cardinality({i \in DOMAIN results :
                                      results[i].success}),
          cached |-> Cardinality({i \in DOMAIN results :
                                     results[i].cached}),
          failed |-> Cardinality({i \in DOMAIN results :
                                     ~results[i].success})]
    ELSE [resources |-> <<>>, success |-> 0, cached |-> 0, failed |-> 0]

\* C28: in every download result cached implies success and a failure has
\* size 0; in the summary process_tutorial builds, success + failed is the
\* number of submitted tasks and cached is at most success.
C28_ResultsConsistent ==
    /\ \A i \in DOMAIN Results :
           /\ Results[i].cached => Results[i].success
           /\ ~Results[i].success => Results[i].size = 0
    /\ batch.status = "returned" =>
           LET s == summary(batch.tasks, Results)
           IN  /\ s.success + s.failed = Len(batch.tasks)
               /\ s.cached <= s.success

\* a batch returned with a file taken from the cache and a failed download
C28_Witness ==
    /\ batch.status = "returned"
    /\ Len(batch.tasks) = 2
    /\ \E i, j \in DOMAIN Results :
           Results[i].cached /\ ~Results[j].success
    /\ summary(batch.tasks, Results).cached = 1
    /\ summary(batch.tasks, Results).failed = 1

(***************************************************************************)
(* Claims about detect_extremes.                                           *)
(***************************************************************************)
\* sample i of the series of the call is above the threshold
Above(i) ==
    /\ i \in 0..Len(analysis.data) - 1
    /\ analysis.data[i + 1] # NaN
    /\ analysis.data[i + 1] > analysis.threshold
\* the maximal runs of consecutive samples above the threshold, as pairs
\* of their first and last sample
Runs ==
    {r \in (0..Len(analysis.data) - 1) \X (0..Len(analysis.data) - 1) :
        /\ r[1] <= r[2]
        /\ \A i \in r[1]..r[2] : Above(i)
        /\ ~Above(r[1] - 1)
        /\ ~Above(r[2] + 1)}
\* the runs that are not shorter than the minimum duration
LongRuns_ ==
    {r \in Runs : analysis.duration = None
                      \/ r[2] - r[1] + 1 >= analysis.duration}
ExtremesReturned ==
    analysis.fn = "detect_extremes" /\ analysis.status = "returned"

\* the rows are the runs, one row per run, in the order of time, each with
\* the run's first and last sample and its number of samples
RowsAreRuns ==
    /\ Len(analysis.events) = Cardinality(LongRuns_)
    /\ \A k \in DOMAIN analysis.events :
           /\ <<analysis.events[k].start, analysis.events[k].end>>
                  \in LongRuns_
           /\ analysis.events[k].duration =
                  analysis.events[k].end - analysis.events[k].start + 1
    /\ \A k \in 1..Len(analysis.events) - 1 :
           analysis.events[k].end < analysis.events[k + 1].start

\* C29: detect_extremes returns exactly the maximal runs of consecutive
\* samples above the threshold, one row per run in chronological order and
\* pairwise disjoint, each with start and end at the run's first and last
\* sample and duration equal to the number of samples of the run; a run
\* that reaches the last sample is closed at the last index, and a run
\* shorter than the minimum duration is left out.
C29_ExtremeRuns == ExtremesReturned => RowsAreRuns

\* the same for a series with a DatetimeIndex
C29_ExtremeRunsByLabel ==
    (ExtremesReturned /\ analysis.index = "datetime") => RowsAreRuns
\* whatever the index, the rows begin and end where runs begin and end
C29_RowsWithinRuns ==
    ExtremesReturned =>
        \A k \in DOMAIN analysis.events :
            <<analysis.events[k].start, analysis.events[k].end>> \in Runs

(***************************************************************************)
(* Claims about quality_check.                                             *)
(***************************************************************************)
Missing(i) ==
    /\ i \in 0..Len(analysis.data) - 1
    /\ analysis.data[i + 1] = NaN
\* the maximal runs of consecutive missing time steps longer than max_gap
LongGaps ==
    {r \in (0..Len(analysis.data) - 1) \X (0..Len(analysis.data) - 1) :
        /\ r[1] <= r[2]
        /\ \A i \in r[1]..r[2] : Missing(i)
        /\ ~Missing(r[1] - 1)
        /\ ~Missing(r[2] + 1)
        /\ r[2] - r[1] + 1 > analysis.max_gap}
QualityReturned ==
    /\ analysis.fn = "quality_check" /\ analysis.status = "returned"
    /\ analysis.max_gap # None
\* the gaps recorded, as pairs of their first and last missing step
Recorded ==
    {<<analysis.result.long_gaps[k][1], analysis.result.long_gaps[k][2] - 1>> :
        k \in DOMAIN analysis.result.long_gaps}

\* C30: quality_check with max_gap given records in long_gaps every
\* maximal run of consecutive missing time steps that is longer than
\* max_gap, including a run that extends to the end of the series, and
\* quality_pass is false whenever such a run exists.
C30_LongGapsRecorded ==
    QualityReturned =>
        /\ LongGaps \subseteq Recorded
        /\ LongGaps # {} => ~analysis.result.quality_pass

\* the gaps recorded are long gaps, and the long gaps that end before the
\* last time step are all recorded and fail the check
C30_InnerGapsRecorded ==
    QualityReturned =>
        /\ Recorded \subseteq LongGaps
        /\ {r \in LongGaps : r[2] < Len(analysis.data) - 1} \subseteq Recorded
        /\ Recorded # {} => ~analysis.result.quality_pass
\* no series with a long gap passes the check (violated by a series that
\* ends in a long gap and is covered well enough)
C30_NoPassWithLongGap ==
    ~(QualityReturned /\ LongGaps # {} /\ analysis.result.quality_pass)

====
